---------------------------- MODULE Spec2Model ----------------------------
(***************************************************************************)
(* EmmaNeigh desktop application: the JavaScript document engine           *)
(* (desktop-app/electron/pdf-processor.js) and the IPC handlers that call  *)
(* it.                                                                     *)
(*                                                                         *)
(* Strings are sequences of one-character strings, so that the string      *)
(* functions of the engine (toUpperCase, replace, split, trim, includes,   *)
(* startsWith) are computed character by character as JavaScript computes  *)
(* them.                                                                   *)
(***************************************************************************)
EXTENDS Integers, Sequences, FiniteSets, TLC

(***************************************************************************)
(* Bounds of the model.                                                    *)
(***************************************************************************)
\* Longest raw name enumerated exhaustively for the normalizer.
MaxNameLen == 5
\* Longest raw name whose one-step spelling variants are enumerated.
MaxVariantLen == 3
\* Most input files one packet job is given.
MaxFiles == 3
\* Most pages of the original / signed document of an execution-version job.
MaxOrigPages == 3
MaxSignedPages == 2
\* insertAfter ranges over -InsertSlack .. MaxOrigPages + InsertSlack.
InsertSlack == 2
\* Most lines of a text enumerated exhaustively for the signer extractor.
MaxLines == 3
\* Most digits typed into the "Insert after page" field.
MaxFieldLen == 2
\* Most lines the processor child process writes to its stdout.
MaxMessages == 3
\* words in a name handed to isProbablePerson
MaxTokens == 5
\* parts between the stem and the extension of an original's name
MaxParts == 2
\* files supplied to a packet job that is run twice
MaxRerunFiles == 2
\* the last millisecond of the clock two overlapping packet jobs run under
MaxClock == 2
\* the last instant of the clock the login handlers run under
MaxTime == 2
\* the life of a verification code, in instants of that clock
CodeLifetime == 1
\* rows the verification_codes table may hold
MaxCodes == 2

(***************************************************************************)
(* JavaScript string primitives.                                           *)
(***************************************************************************)
LowerLetters ==
    << "a","b","c","d","e","f","g","h","i","j","k","l","m",
       "n","o","p","q","r","s","t","u","v","w","x","y","z" >>

UpperLetters ==
    << "A","B","C","D","E","F","G","H","I","J","K","L","M",
       "N","O","P","Q","R","S","T","U","V","W","X","Y","Z" >>

\* The characters \s matches and trim() strips (those the model uses).
WhiteSpace == { " ", "\t", "\n", "\r" }

\* String.prototype.toUpperCase on one character: a cased letter maps to its
\* capital, the sharp s maps to the two characters SS, anything else to itself.
UpperChar(c) ==
    IF \E i \in 1..26 : LowerLetters[i] = c
    THEN << UpperLetters[CHOOSE i \in 1..26 : LowerLetters[i] = c] >>
    ELSE IF c = "ß" THEN << "S", "S" >> ELSE << c >>

RECURSIVE toUpperCase(_)
toUpperCase(s) ==
    IF s = << >> THEN << >> ELSE UpperChar(Head(s)) \o toUpperCase(Tail(s))

\* String.prototype.toLowerCase (used on file names only).
LowerChar(c) ==
    IF \E i \in 1..26 : UpperLetters[i] = c
    THEN LowerLetters[CHOOSE i \in 1..26 : UpperLetters[i] = c]
    ELSE c

toLowerCase(s) == [i \in 1..Len(s) |-> LowerChar(s[i])]

\* s.replace(/[.,]/g, '')
IsNotDotComma(c) == c \notin { ".", "," }

stripDotComma(s) == SelectSeq(s, IsNotDotComma)

\* s.replace(/\s+/g, ' '): every maximal run of white space becomes one space.
RECURSIVE collapseWhitespace(_)
collapseWhitespace(s) ==
    IF s = << >> THEN << >>
    ELSE IF Head(s) \in WhiteSpace
         THEN IF Len(s) > 1 /\ s[2] \in WhiteSpace
              THEN collapseWhitespace(Tail(s))
              ELSE << " " >> \o collapseWhitespace(Tail(s))
         ELSE << Head(s) >> \o collapseWhitespace(Tail(s))

RECURSIVE trimStart(_)
trimStart(s) ==
    IF s # << >> /\ Head(s) \in WhiteSpace THEN trimStart(Tail(s)) ELSE s

RECURSIVE trimEnd(_)
trimEnd(s) ==
    IF s # << >> /\ s[Len(s)] \in WhiteSpace
    THEN trimEnd(SubSeq(s, 1, Len(s) - 1)) ELSE s

\* String.prototype.trim
trim(s) == trimEnd(trimStart(s))

startsWith(s, pre) ==
    Len(pre) <= Len(s) /\ SubSeq(s, 1, Len(pre)) = pre

endsWith(s, suf) ==
    Len(suf) <= Len(s) /\ SubSeq(s, Len(s) - Len(suf) + 1, Len(s)) = suf

\* String.prototype.includes
includes(s, sub) ==
    \E i \in 1..(Len(s) - Len(sub) + 1) : SubSeq(s, i, i + Len(sub) - 1) = sub

\* s.split(sep) for a one-character separator: the pieces between separators,
\* empty pieces included.
RECURSIVE splitChar(_, _)
splitChar(s, sep) ==
    IF \A i \in 1..Len(s) : s[i] # sep THEN << s >>
    ELSE LET k == CHOOSE i \in 1..Len(s) :
                     s[i] = sep /\ \A j \in 1..(i - 1) : s[j] # sep
         IN  << SubSeq(s, 1, k - 1) >> \o splitChar(SubSeq(s, k + 1, Len(s)), sep)

IsNonEmpty(x) == x # << >>

\* Array.prototype.join with a one-character separator.
RECURSIVE join(_, _)
join(parts, sep) ==
    IF parts = << >> THEN << >>
    ELSE IF Len(parts) = 1 THEN parts[1]
    ELSE parts[1] \o << sep >> \o join(Tail(parts), sep)

\* The elements of a sequence.
Range(f) == { f[i] : i \in DOMAIN f }

(***************************************************************************)
(* normalizeName, isProbablePerson.                                        *)
(***************************************************************************)
\* A normalizer that strips punctuation last, after white space was collapsed
\* and trimmed.
normalizeNameStripLast(name) ==
    stripDotComma(trim(collapseWhitespace(toUpperCase(name))))

\* A normalizer that forgets to uppercase.
normalizeNameKeepCase(name) ==
    trim(collapseWhitespace(stripDotComma(name)))

normalizeName(name) ==
    trim(collapseWhitespace(stripDotComma(toUpperCase(name))))

\* isProbablePerson: const entityTerms.
entityTerms ==
    { << "L","L","C" >>,
      << "I","N","C" >>,
      << "C","O","R","P" >>,
      << "C","O","R","P","O","R","A","T","I","O","N" >>,
      << "L","P" >>,
      << "L","L","P" >>,
      << "T","R","U","S","T" >>,
      << "H","O","L","D","I","N","G","S" >>,
      << "P","A","R","T","N","E","R","S" >>,
      << "F","U","N","D" >>,
      << "C","A","P","I","T","A","L" >> }

\* A check that looks for the entity terms in the name as given.
isProbablePersonCaseSensitive(name) ==
    LET words == SelectSeq(splitChar(name, " "), IsNonEmpty)
    IN  IF \E term \in entityTerms : includes(name, term)
        THEN FALSE
        ELSE Len(words) >= 2 /\ Len(words) <= 4

isProbablePerson(name) ==
    LET upperName == toUpperCase(name)
        words == SelectSeq(splitChar(name, " "), IsNonEmpty)
    IN  IF \E term \in entityTerms : includes(upperName, term)
        THEN FALSE
        ELSE Len(words) >= 2 /\ Len(words) <= 4

(***************************************************************************)
(* extractTextFromPdfBuffer, extractSignersFromText.                       *)
(***************************************************************************)
\* text.split(/[\n\r]+/): the pieces between maximal runs of line breaks.
LineBreaks == { "\n", "\r" }

RECURSIVE skipLineBreaks(_)
skipLineBreaks(s) ==
    IF s # << >> /\ Head(s) \in LineBreaks THEN skipLineBreaks(Tail(s)) ELSE s

RECURSIVE splitLineBreaks(_)
splitLineBreaks(s) ==
    IF \A i \in 1..Len(s) : s[i] \notin LineBreaks THEN << s >>
    ELSE LET k == CHOOSE i \in 1..Len(s) :
                     s[i] \in LineBreaks /\ \A j \in 1..(i - 1) : s[j] \notin LineBreaks
         IN  << SubSeq(s, 1, k - 1) >>
                 \o splitLineBreaks(skipLineBreaks(SubSeq(s, k, Len(s))))

\* const lines = text.split(/[\n\r]+/).map(l => l.trim()).filter(l => l)
textLines(text) ==
    LET pieces == splitLineBreaks(text)
    IN  SelectSeq([i \in 1..Len(pieces) |-> trim(pieces[i])], IsNonEmpty)

\* The forward window of an anchor: for (j = 1; j <= 6 && i + j < lines.length; j++)
WindowSize == 6

\* line.toUpperCase().includes('BY:') || line.toUpperCase().includes('BY :')
isByAnchor(line) ==
    \/ includes(toUpperCase(line), << "B","Y",":" >>)
    \/ includes(toUpperCase(line), << "B","Y"," ",":" >>)

\* candidate.toUpperCase().startsWith('NAME:') || ...startsWith('NAME :')
isNameField(candidate) ==
    \/ startsWith(toUpperCase(candidate), << "N","A","M","E",":" >>)
    \/ startsWith(toUpperCase(candidate), << "N","A","M","E"," ",":" >>)

\* A window that reaches one line further.
windowOffsetsWide(lines, i) == { j \in 1..(WindowSize + 1) : i + j <= Len(lines) }

\* The window offsets j of the anchor at (1-based) line i.
windowOffsets(lines, i) == { j \in 1..WindowSize : i + j <= Len(lines) }

\* A Tier 1 that does not stop at the first Name: line of the window and
\* takes the last one.
tier1LastName(lines, i) ==
    LET hits == { j \in windowOffsets(lines, i) : isNameField(lines[i + j]) }
    IN  IF hits = {} THEN [found |-> FALSE, name |-> << >>]
        ELSE LET j == CHOOSE h \in hits : \A g \in hits : h >= g
                 parts == splitChar(lines[i + j], ":")
                 name == IF Len(parts) >= 2 THEN trim(parts[2]) ELSE << >>
             IN  IF name # << >> /\ Len(name) > 2
                 THEN [found |-> TRUE, name |-> normalizeName(name)]
                 ELSE [found |-> FALSE, name |-> << >>]

\* Tier 1: the first Name: line of the window ends the scan (break); its name
\* is taken when it is longer than 2 characters.  The result is
\* [found |-> foundName, name |-> the key added, if any].
tier1(lines, i) ==
    LET hits == { j \in windowOffsets(lines, i) : isNameField(lines[i + j]) }
    IN  IF hits = {} THEN [found |-> FALSE, name |-> << >>]
        ELSE LET j == CHOOSE h \in hits : \A g \in hits : h <= g
                 parts == splitChar(lines[i + j], ":")
                 name == IF Len(parts) >= 2 THEN trim(parts[2]) ELSE << >>
             IN  IF name # << >> /\ Len(name) > 2
                 THEN [found |-> TRUE, name |-> normalizeName(name)]
                 ELSE [found |-> FALSE, name |-> << >>]

\* Tier 2: the first window line whose normalized form is longer than 3
\* characters and passes isProbablePerson.
tier2(lines, i) ==
    LET ok(j) == LET candidate == normalizeName(lines[i + j])
                 IN  candidate # << >> /\ Len(candidate) > 3
                        /\ isProbablePerson(candidate)
        hits == { j \in windowOffsets(lines, i) : ok(j) }
    IN  IF hits = {} THEN [found |-> FALSE, name |-> << >>]
        ELSE LET j == CHOOSE h \in hits : \A g \in hits : h <= g
             IN  [found |-> TRUE, name |-> normalizeName(lines[i + j])]

\* The signer the line at index i adds, as a sequence of 0 or 1 names.
anchorSigners(lines, i) ==
    IF ~isByAnchor(lines[i]) THEN << >>
    ELSE LET t1 == tier1(lines, i)
         IN  IF t1.found THEN << t1.name >>
             ELSE LET t2 == tier2(lines, i)
                  IN  IF t2.found THEN << t2.name >> ELSE << >>

\* Set.prototype.add on a Set kept in insertion order.
setAdd(seq, x) == IF x \in Range(seq) THEN seq ELSE Append(seq, x)

RECURSIVE setAddAll(_, _)
setAddAll(seq, xs) ==
    IF xs = << >> THEN seq ELSE setAddAll(setAdd(seq, Head(xs)), Tail(xs))

RECURSIVE signersFrom(_, _, _)
signersFrom(lines, i, signers) ==
    IF i > Len(lines) THEN signers
    ELSE signersFrom(lines, i + 1, setAddAll(signers, anchorSigners(lines, i)))

\* Array.from(signers): the signers of a text in order of first detection.
extractSignersFromText(text) == signersFrom(textLines(text), 1, << >>)

\* ARCHITECTURE.md, is_signature_page: SIGNATURE_KEYWORDS.
SIGNATURE_KEYWORDS ==
    { << "I","N"," ","W","I","T","N","E","S","S"," ","W","H","E","R","E","O","F" >>,
      << "B","Y",":" >>,
      << "N","A","M","E",":" >>,
      << "T","I","T","L","E",":" >>,
      << "D","A","T","E",":" >>,
      << "S","I","G","N","A","T","U","R","E" >>,
      << "_","_","_","_","_","_","_","_","_","_","_","_","_","_","_","_" >> }

\* hits = sum(1 for keyword in SIGNATURE_KEYWORDS if keyword in text.upper())
keywordHits(text) ==
    Cardinality({ kw \in SIGNATURE_KEYWORDS : includes(toUpperCase(text), kw) })

\* return hits >= 2
is_signature_page(text) == keywordHits(text) >= 2

(***************************************************************************)
(* The documents the jobs are given.  A document holds its page count, the *)
(* text-showing fragments "( ... )" of its content streams, each with the  *)
(* page it is drawn on, whether the file system lets the file be read, and *)
(* whether PDFDocument.load can parse it.                                  *)
(* Every fragment is drawn on a line (or lines) of its own.                *)
(***************************************************************************)

\* "Section 1"
TextBody ==
    << "S","e","c","t","i","o","n"," ","1" >>

\* "By:\nName: John Smith\nTitle: CEO"
TextCreditSig ==
    << "B","y",":","\n","N","a","m","e",":"," ","J","o","h","n"," ","S","m",
       "i","t","h","\n","T","i","t","l","e",":"," ","C","E","O" >>

\* "BY:\nName: John  Smith.\nDate:"
TextGuarantySig ==
    << "B","Y",":","\n","N","a","m","e",":"," ","J","o","h","n"," "," ","S",
       "m","i","t","h",".","\n","D","a","t","e",":" >>

\* "By: ______\nJane Doe\nDate:"
TextJaneTier2 ==
    << "B","y",":"," ","_","_","_","_","_","_","\n","J","a","n","e"," ","D",
       "o","e","\n","D","a","t","e",":" >>

\* "By:\nName: ABC Holdings LLC\nTitle: Manager"
TextEntityTier1 ==
    << "B","y",":","\n","N","a","m","e",":"," ","A","B","C"," ","H","o","l",
       "d","i","n","g","s"," ","L","L","C","\n","T","i","t","l","e",":"," ",
       "M","a","n","a","g","e","r" >>

\* "By:\nABC Holdings LLC\njohn smith,"
TextEntityTier2 ==
    << "B","y",":","\n","A","B","C"," ","H","o","l","d","i","n","g","s"," ",
       "L","L","C","\n","j","o","h","n"," ","s","m","i","t","h","," >>

\* "Date: 1 May\nDear Sirs"
TextCover ==
    << "D","a","t","e",":"," ","1"," ","M","a","y","\n","D","e","a","r"," ",
       "S","i","r","s" >>

\* "By:"
TextByLine ==
    << "B","y",":" >>

\* "Name: John Smith"
TextNameLine ==
    << "N","a","m","e",":"," ","J","o","h","n"," ","S","m","i","t","h" >>

\* "JOHN SMITH"
JOHN_SMITH ==
    << "J","O","H","N"," ","S","M","I","T","H" >>

\* "John Smith"
RawJohnSmith ==
    << "J","o","h","n"," ","S","m","i","t","h" >>

\* "John  Smith."
RawJohnSmithDot ==
    << "J","o","h","n"," "," ","S","m","i","t","h","." >>


\* The files the caller can name, by id:
\*   1  deal/A.pdf   3 pages; names John Smith in a Name: field on page 3
\*   2  deal/B.pdf   2 pages; "John  Smith." in a Name: field on page 1,
\*                   Jane Doe below a BY: line (no Name: field) on page 2
\*   3  deal/C.pdf   1 page; an entity in the Name: field
\*   4  other/A.pdf  2 pages; the same base name as file 1; page 2 holds a
\*                   BY: line, an entity line and "john smith,", and no other
\*                   signature keyword
\*   5  deal/D.PDF   2 pages; a cover letter with a Date: line on page 1; on
\*                   page 2 a BY: line and the line "Name: John Smith" below
\*                   it, each shown by a text operator of its own
\*   6  deal/E.pdf   a file PDFDocument.load cannot parse
\*   7  deal/F.docx  not a PDF by name
\*   8  deal/G.pdf   a PDF with no page, whose content still holds text
\*   9  deal/H.pdf   a path that cannot be read (no such file, or no permission)
Disk ==
    << [dir |-> "deal", base |-> << "A",".","p","d","f" >>, readable |-> TRUE,
        loadable |-> TRUE, pageCount |-> 3,
        frags |-> << [page |-> 1, text |-> TextBody],
                     [page |-> 3, text |-> TextCreditSig] >>],
       [dir |-> "deal", base |-> << "B",".","p","d","f" >>, readable |-> TRUE,
        loadable |-> TRUE, pageCount |-> 2,
        frags |-> << [page |-> 1, text |-> TextGuarantySig],
                     [page |-> 2, text |-> TextJaneTier2] >>],
       [dir |-> "deal", base |-> << "C",".","p","d","f" >>, readable |-> TRUE,
        loadable |-> TRUE, pageCount |-> 1,
        frags |-> << [page |-> 1, text |-> TextEntityTier1] >>],
       [dir |-> "other", base |-> << "A",".","p","d","f" >>, readable |-> TRUE,
        loadable |-> TRUE, pageCount |-> 2,
        frags |-> << [page |-> 2, text |-> TextEntityTier2] >>],
       [dir |-> "deal", base |-> << "D",".","P","D","F" >>, readable |-> TRUE,
        loadable |-> TRUE, pageCount |-> 2,
        frags |-> << [page |-> 1, text |-> TextCover],
                     [page |-> 2, text |-> TextByLine],
                     [page |-> 2, text |-> TextNameLine] >>],
       [dir |-> "deal", base |-> << "E",".","p","d","f" >>, readable |-> TRUE,
        loadable |-> FALSE, pageCount |-> 0,
        frags |-> << [page |-> 1, text |-> TextCreditSig] >>],
       [dir |-> "deal", base |-> << "F",".","d","o","c","x" >>, readable |-> TRUE,
        loadable |-> TRUE, pageCount |-> 1,
        frags |-> << [page |-> 1, text |-> TextCreditSig] >>],
       [dir |-> "deal", base |-> << "G",".","p","d","f" >>, readable |-> TRUE,
        loadable |-> TRUE, pageCount |-> 0,
        frags |-> << [page |-> 0, text |-> TextJaneTier2] >>],
       [dir |-> "deal", base |-> << "H",".","p","d","f" >>, readable |-> FALSE,
        loadable |-> FALSE, pageCount |-> 0,
        frags |-> << >>] >>

FileIds == DOMAIN Disk

\* extractTextFromPdfBuffer: textMatches.join(' ') over the fragments of the
\* whole buffer, whatever page each is drawn on.
extractTextFromPdfBuffer(doc) ==
    join([k \in 1..Len(doc.frags) |-> doc.frags[k].text], " ")

\* The signers extractSignersFromText finds in each file of the disk.
SignersOfFile ==
    [id \in FileIds |-> extractSignersFromText(extractTextFromPdfBuffer(Disk[id]))]

(***************************************************************************)
(* State.                                                                  *)
(***************************************************************************)
VARIABLES
    job,             \* which flow this behaviour runs: "packets", "execution", ...
    \* ipcMain.handle('process-signature-packets') and processSignaturePackets
    pc,              \* position in the packet job
    filePaths,       \* the handler's argument: file ids in the order supplied
    tempDir,         \* the working folder: base name -> id of the file copied there
    files,           \* const files: the .pdf names readdirSync listed
    scanIdx,         \* loop index i of the scan loop (1-based)
    signerDocPages,  \* << [signer, docs: << [docName, pages] >>] >> in insertion order
    dirsCreated,     \* directories created by mkdirSync
    packetFiles,     \* packet files written: << [signer, pages: << [doc, page] >>] >>
    packetIdx,       \* loop index i of the packet loop (1-based)
    packetsCreated,  \* const packetsCreated
    events,          \* progressCallback calls, in order
    result,          \* what the handler returned
    run,             \* 1 in the first run over the folder, 2 in the second
    firstRun,        \* what the first run listed, found and wrote
    \* ipcMain.handle('create-execution-version') and createExecutionVersion
    epc,             \* position in the execution-version job
    originalPath,    \* the handler's originalPath argument
    signedPath,      \* the handler's signedPath argument
    originalPdf,     \* pages of the original document
    signedPdf,       \* pages of the signed document
    signedEncrypted, \* the signed document's content is encrypted with a password
    insertField,     \* state insertAfter of the page: the text of the field
    insertAfter,     \* the handler's insertAfter argument
    insertPoint,     \* let insertPoint
    resultPdf,       \* pages added to resultPdf so far
    outputFile,      \* the file at outputPath
    eresult,         \* what the handler returned
    progressSent,    \* the events createExecutionVersion's progressCallback sent
    \* normalizeName applied to a raw name, and again to its own result
    npc, rawName, onceName, twiceName,
    \* extractSignersFromText on one text, anchor by anchor
    xpc,             \* position in the extraction
    xtext,           \* the text argument
    xlines,          \* const lines
    xi,              \* loop index i (1-based)
    xsigners,        \* const signers, in insertion order
    xlog,            \* per BY: anchor: << [line, tier, names] >>
    \* the handlers that spawn the processor child process
    handlerName,     \* which handler was invoked
    cpc,             \* position of the invocation and of the child process
    processorFound,  \* processorPath is set and the file exists
    input,           \* the handler's input argument, by its shape
    emitted,         \* the messages the processor wrote to its stdout, in order
    exitCode,        \* the exit code of the processor, -1 while it runs
    received,        \* lines received on proc.stdout so far
    stdoutBuf,       \* let stdout of runPythonProcessor: the lines accumulated
    procResult,      \* let result of the handlers of main.js
    promise,         \* state of the Promise the handler returned
    settledWith,     \* the value it was resolved with, or the error
    ipcLog,          \* 'progress' events sent to the window and the settling
    \* a pure function of the engine applied to one argument
    fpc,             \* "arg" before the call, "done" after it
    fin,             \* the argument
    fout,            \* the value returned
    \* two invocations of ipcMain.handle('process-signature-packets')
    clock,           \* Date.now(), in milliseconds
    hpc,             \* invocation -> its position in the handler
    tempDirOf,       \* invocation -> the stamp of its const tempDir
    filesOf,         \* invocation -> the inputs its readdirSync listed
    zipPathOf,       \* invocation -> the stamp of its const zipPath
    tempRoot,        \* app.getPath('temp'): stamp -> content of emmaneigh-<stamp>
    zipFiles,        \* app.getPath('temp'): stamp -> content of EmmaNeigh-Output-<stamp>.zip
    \* the login handlers of main.js and the table they share
    dateNow,           \* Date.now() and CURRENT_TIMESTAMP
    verification_codes,\* the rows of the table, in order of their id
    insertedBy,        \* id of a row -> the handler that inserted it
    sessions,          \* the logins complete-2fa-login has granted, in order
    reply              \* the last IPC call and what it returned

pvars == << pc, filePaths, tempDir, files, scanIdx, signerDocPages, dirsCreated,
            packetFiles, packetIdx, packetsCreated, events, result, run, firstRun >>

evars == << epc, originalPath, signedPath, originalPdf, signedPdf, signedEncrypted, insertField, insertAfter,
            insertPoint, resultPdf, outputFile, eresult, progressSent >>

nvars == << npc, rawName, onceName, twiceName >>

xvars == << xpc, xtext, xlines, xi, xsigners, xlog >>

cvars == << handlerName, cpc, processorFound, input, emitted, exitCode, received, stdoutBuf,
            procResult, promise, settledWith, ipcLog >>

fvars == << fpc, fin, fout >>

ovars == << clock, hpc, tempDirOf, filesOf, zipPathOf, tempRoot, zipFiles >>

lvars == << dateNow, verification_codes, insertedBy, sessions, reply >>

vars == << job, pvars, evars, nvars, xvars, cvars, fvars, ovars, lvars >>

(***************************************************************************)
(* processSignaturePackets.                                                *)
(***************************************************************************)
\* A ratio scaled to a percentage instead of rounded.
MathRoundScaled(num, den) == (100 * num) \div den

\* Math.round(num / den) for num >= 0, den > 0.
MathRound(num, den) == (2 * num + den) \div (2 * den)

\* The distinct-element sequences over a finite set S of length at most n.
RECURSIVE SeqsNoRepeat(_, _)
SeqsNoRepeat(S, n) ==
    IF n = 0 THEN { << >> }
    ELSE LET shorter == SeqsNoRepeat(S, n - 1)
         IN  shorter \cup
                 UNION { { Append(s, x) : x \in S \ Range(s) } : s \in shorter }

\* The orders in which readdirSync may list a set of names.
Orderings(S) == { s \in SeqsNoRepeat(S, Cardinality(S)) : Len(s) = Cardinality(S) }

\* fs.copyFileSync(filePath, path.join(tempDir, path.basename(filePath))) for
\* each file in turn: a later file of the same base name replaces an earlier.
RECURSIVE copyToTemp(_, _)
copyToTemp(paths, dir) ==
    IF paths = << >> THEN dir
    ELSE LET id == Head(paths)
             b == Disk[id].base
         IN  copyToTemp(Tail(paths),
                        [x \in (DOMAIN dir) \cup { b } |->
                            IF x = b THEN id ELSE dir[x]])

\* The files the copy loop copies before fs.copyFileSync throws: those ahead of
\* the first path that cannot be read.
RECURSIVE copiedBeforeThrow(_)
copiedBeforeThrow(paths) ==
    IF paths = << >> \/ ~Disk[Head(paths)].readable THEN << >>
    ELSE << Head(paths) >> \o copiedBeforeThrow(Tail(paths))

\* A listing that is not filtered by name.
isPdfNameUnfiltered(f) == TRUE

\* f.toLowerCase().endsWith('.pdf')
isPdfName(f) == endsWith(toLowerCase(f), << ".", "p", "d", "f" >>)

indexOfSigner(sdp, signer) ==
    IF \E k \in 1..Len(sdp) : sdp[k].signer = signer
    THEN CHOOSE k \in 1..Len(sdp) : sdp[k].signer = signer
    ELSE 0

indexOfDoc(docs, docName) ==
    IF \E k \in 1..Len(docs) : docs[k].docName = docName
    THEN CHOOSE k \in 1..Len(docs) : docs[k].docName = docName
    ELSE 0

\* for (let p = 1; p <= pageCount; p++) if (!pages.includes(p)) pages.push(p)
RECURSIVE pushPages(_, _, _)
pushPages(pages, p, pageCount) ==
    IF p > pageCount THEN pages
    ELSE pushPages(IF p \in Range(pages) THEN pages ELSE Append(pages, p),
                   p + 1, pageCount)

\* A page loop that starts at the 0-based index.
pagesForFromZero(pages, pageCount) == pushPages(pages, 0, pageCount)

\* The pages recorded for a signer found in a document of pageCount pages.
pagesFor(pages, pageCount) == pushPages(pages, 1, pageCount)

\* The body of "for (const signer of signers)" for one signer.
recordSigner(sdp, signer, filename, pageCount) ==
    LET sdp1 == IF indexOfSigner(sdp, signer) = 0
                THEN Append(sdp, [signer |-> signer, docs |-> << >>])
                ELSE sdp
        s == indexOfSigner(sdp1, signer)
        docs1 == IF indexOfDoc(sdp1[s].docs, filename) = 0
                 THEN Append(sdp1[s].docs, [docName |-> filename, pages |-> << >>])
                 ELSE sdp1[s].docs
        d == indexOfDoc(docs1, filename)
        docs2 == [docs1 EXCEPT ![d].pages = pagesFor(@, pageCount)]
    IN  [sdp1 EXCEPT ![s].docs = docs2]

RECURSIVE recordSigners(_, _, _, _)
recordSigners(sdp, signers, filename, pageCount) ==
    IF signers = << >> THEN sdp
    ELSE recordSigners(recordSigner(sdp, Head(signers), filename, pageCount),
                       Tail(signers), filename, pageCount)

\* const signerNames = Object.keys(signerDocPages)
signerNamesOf(sdp) == [k \in 1..Len(sdp) |-> sdp[k].signer]

\* A terminal check that never fires.
noSignersNever(sdp) == FALSE

\* if (signerNames.length === 0) throw ...
noSigners(sdp) == Len(signerNamesOf(sdp)) = 0

\* The pages copied from one [docName, pages] entry, in the order of pages.
docPageRefs(entry) ==
    [k \in 1..Len(entry.pages) |-> [doc |-> entry.docName, page |-> entry.pages[k]]]

\* A packet assembled from the documents in reverse order.
RECURSIVE packetPagesReversed(_)
packetPagesReversed(docs) ==
    IF docs = << >> THEN << >>
    ELSE packetPagesReversed(Tail(docs)) \o docPageRefs(Head(docs))

\* A packet assembled from the first document only.
packetPagesFirstDoc(docs) ==
    IF docs = << >> THEN << >> ELSE docPageRefs(Head(docs))

\* for (const [docName, pages] of Object.entries(docPages)): copyPages, addPage
RECURSIVE packetPages(_)
packetPages(docs) ==
    IF docs = << >> THEN << >>
    ELSE docPageRefs(Head(docs)) \o packetPages(Tail(docs))

Event(stage, percent, about) == [stage |-> stage, percent |-> percent, about |-> about]

\* A catch block that swallows the error without reporting it.
catchWarningSilent(evs, percent, signerName) == evs

\* catch (err) { progressCallback('warning', percent, `Error creating packet
\* for ${signerName}: ...`) } of the packet loop.
catchWarning(evs, percent, signerName) ==
    Append(evs, Event("warning", percent, signerName))

ErrNoPdf == "No PDF files found in the selected folder."

\* err.message of the error fs.copyFileSync throws.
ErrCopy == "ENOENT: no such file or directory, copyfile"

ErrNoSigners ==
    "No signature pages detected. Make sure PDFs contain \"BY:\" and \"Name:\" fields."

ErrorResult(msg) == [kind |-> "error", success |-> FALSE, error |-> msg]

Pending == [kind |-> "none"]

\* A write that returns without having written the file.
writePacketNothing(written, signer, pages) == written

\* fs.writeFileSync(outputPath, pdfBytes): the file named after the signer is
\* created, or replaced when it exists.
writePacket(written, signer, pages) ==
    IF \E k \in 1..Len(written) : written[k].signer = signer
    THEN [k \in 1..Len(written) |->
             IF written[k].signer = signer
             THEN [signer |-> signer, pages |-> pages] ELSE written[k]]
    ELSE Append(written, [signer |-> signer, pages |-> pages])

\* The job names under which the packet job runs: once, or twice over the
\* same folder.
PacketJobs == { "packets", "rerun" }

NoRun == [kind |-> "none"]

PacketsFresh ==
    /\ pc = "idle"
    /\ tempDir = << >>
    /\ files = << >>
    /\ scanIdx = 1
    /\ signerDocPages = << >>
    /\ dirsCreated = { }
    /\ packetFiles = << >>
    /\ packetIdx = 1
    /\ packetsCreated = << >>
    /\ events = << >>
    /\ result = Pending
    /\ run = 1
    /\ firstRun = NoRun

PacketsIdle ==
    /\ PacketsFresh
    /\ filePaths = << >>

\* The handler up to the call, then processSignaturePackets up to its scan
\* loop: mkdirSync(tempDir), the copies, readdirSync + filter, the empty check
\* and the first progress event.  fs.copyFileSync throws on a path that cannot
\* be read; the handler's catch then returns { success: false, error }.
\* readdirSync lists the folder in an order the file system chooses.
StartPacketJob ==
    /\ job \in PacketJobs
    /\ pc = "idle"
    /\ dirsCreated' = dirsCreated \cup { "tempDir" }
    /\ IF \E k \in 1..Len(filePaths) : ~Disk[filePaths[k]].readable
       THEN /\ tempDir' = copyToTemp(copiedBeforeThrow(filePaths), << >>)
            /\ result' = ErrorResult(ErrCopy)
            /\ pc' = "done"
            /\ UNCHANGED << files, events >>
       ELSE LET dir == copyToTemp(filePaths, << >>)
                pdfs == { f \in DOMAIN dir : isPdfName(f) }
            IN  /\ tempDir' = dir
                /\ \E listing \in Orderings(pdfs) :
                      /\ files' = listing
                      /\ IF Len(listing) = 0
                         THEN /\ result' = ErrorResult(ErrNoPdf)
                              /\ pc' = "done"
                              /\ events' = events
                         ELSE /\ result' = result
                              /\ pc' = "scanning"
                              /\ events' = Append(events, Event("scanning", 0, << >>))
    /\ UNCHANGED << job, run, firstRun, filePaths, scanIdx, signerDocPages, packetFiles,
                    packetIdx, packetsCreated, evars, nvars, xvars, cvars, fvars, ovars, lvars >>

\* One iteration of "for (let i = 0; i < files.length; i++)", its try/catch
\* included.  readFileSync, ahead of the try, reads the copy the handler made.
ScanDocument ==
    /\ job \in PacketJobs
    /\ pc = "scanning"
    /\ scanIdx <= Len(files)
    /\ LET filename == files[scanIdx]
           id == tempDir[filename]
           percent == MathRound((scanIdx - 1) * 50, Len(files))
           ev1 == Append(events, Event("scanning", percent, filename))
       IN  IF Disk[id].loadable
           THEN /\ signerDocPages' =
                       IF Len(SignersOfFile[id]) > 0
                       THEN recordSigners(signerDocPages, SignersOfFile[id],
                                          filename, Disk[id].pageCount)
                       ELSE signerDocPages
                /\ events' = ev1
           ELSE /\ signerDocPages' = signerDocPages
                /\ events' = Append(ev1, Event("warning", percent, filename))
    /\ scanIdx' = scanIdx + 1
    /\ pc' = IF scanIdx = Len(files) THEN "check" ELSE "scanning"
    /\ UNCHANGED << job, run, firstRun, filePaths, tempDir, files, dirsCreated, packetFiles,
                    packetIdx, packetsCreated, result, evars, nvars, xvars, cvars, fvars, ovars, lvars >>

\* The terminal check after the scan loop, then the progress event and
\* mkdirSync(outputPdfDir, { recursive: true }).  The throw is caught by the
\* handler, which returns { success: false, error }.
CheckSigners ==
    /\ job \in PacketJobs
    /\ pc = "check"
    /\ IF noSigners(signerDocPages)
       THEN /\ result' = ErrorResult(ErrNoSigners)
            /\ pc' = "done"
            /\ UNCHANGED << events, dirsCreated >>
       ELSE /\ result' = result
            /\ pc' = "extracting"
            /\ events' = Append(events, Event("extracting", 50, << >>))
            /\ dirsCreated' = dirsCreated \cup { "signature_packets_output", "packets" }
    /\ UNCHANGED << job, run, firstRun, filePaths, tempDir, files, scanIdx, signerDocPages,
                    packetFiles, packetIdx, packetsCreated, evars, nvars, xvars, cvars, fvars, ovars, lvars >>

\* One iteration of "for (let i = 0; i < signerNames.length; i++)", its
\* try/catch included.  Reading, loading, copying, saving or writing may throw
\* (ioOk = FALSE); nothing is pushed to packetsCreated then.
BuildPacket ==
    /\ job \in PacketJobs
    /\ pc = "extracting"
    /\ packetIdx <= Len(signerNamesOf(signerDocPages))
    /\ LET signerName == signerNamesOf(signerDocPages)[packetIdx]
           docPages == signerDocPages[packetIdx].docs
           percent == 50 + MathRound((packetIdx - 1) * 50, Len(signerDocPages))
           ev1 == Append(events, Event("extracting", percent, signerName))
           pages == packetPages(docPages)
       IN  \E ioOk \in BOOLEAN :
              IF ~ioOk
              THEN /\ events' = catchWarning(ev1, percent, signerName)
                   /\ UNCHANGED << packetFiles, packetsCreated >>
              ELSE /\ events' = ev1
                   /\ IF Len(pages) > 0
                      THEN /\ packetFiles' = writePacket(packetFiles, signerName, pages)
                           /\ packetsCreated' =
                                 Append(packetsCreated,
                                        [name |-> signerName, pages |-> Len(pages)])
                      ELSE UNCHANGED << packetFiles, packetsCreated >>
    /\ packetIdx' = packetIdx + 1
    /\ UNCHANGED << job, run, firstRun, pc, filePaths, tempDir, files, scanIdx, signerDocPages,
                    dirsCreated, result, evars, nvars, xvars, cvars, fvars, ovars, lvars >>

\* The end of processSignaturePackets and of the handler: the last progress
\* event, the return value, createZipFromDirectory (which may reject) and the
\* handler's own return.
FinishPacketJob ==
    /\ job \in PacketJobs
    /\ pc = "extracting"
    /\ packetIdx > Len(signerNamesOf(signerDocPages))
    /\ events' = Append(events, Event("complete", 100, << >>))
    /\ \E zipOk \in BOOLEAN :
          result' = IF zipOk
                    THEN [kind |-> "result", success |-> TRUE,
                          packetsCreated |-> Len(packetsCreated),
                          packets |-> packetsCreated]
                    ELSE ErrorResult("zip")
    /\ pc' = "done"
    /\ UNCHANGED << job, run, firstRun, filePaths, tempDir, files, scanIdx, signerDocPages,
                    dirsCreated, packetFiles, packetIdx, packetsCreated,
                    evars, nvars, xvars, cvars, fvars, ovars, lvars >>

\* processSignaturePackets called a second time on the same inputDir:
\* readdirSync now also lists the output folder the first run created there,
\* at a place the file system chooses among the entries listed before, and
\* the filter is applied to the listing.  The packet files of the first run
\* are still in the output folder.
insertAt(seq, k, x) == SubSeq(seq, 1, k - 1) \o << x >> \o SubSeq(seq, k, Len(seq))

OutputDirName == << "s","i","g","n","a","t","u","r","e","_","p","a","c","k","e","t","s","_","o","u","t","p","u","t" >>

RunAgain ==
    /\ job = "rerun"
    /\ pc = "done"
    /\ run = 1
    /\ result # ErrorResult(ErrCopy)
    /\ run' = 2
    /\ firstRun' = [kind |-> "run", files |-> files,
                    signers |-> signerNamesOf(signerDocPages),
                    packetsCreated |-> packetsCreated,
                    packetFiles |-> packetFiles]
    /\ \E k \in 1..(Len(files) + 1) :
          LET entries == IF "signature_packets_output" \in dirsCreated
                         THEN insertAt(files, k, OutputDirName) ELSE files
              listing == SelectSeq(entries, isPdfName)
          IN  /\ files' = listing
              /\ IF Len(listing) = 0
                 THEN /\ result' = ErrorResult(ErrNoPdf)
                      /\ pc' = "done"
                      /\ events' = << >>
                 ELSE /\ result' = Pending
                      /\ pc' = "scanning"
                      /\ events' = << Event("scanning", 0, << >>) >>
    /\ scanIdx' = 1
    /\ signerDocPages' = << >>
    /\ packetIdx' = 1
    /\ packetsCreated' = << >>
    /\ UNCHANGED << job, filePaths, tempDir, dirsCreated, packetFiles,
                    evars, nvars, xvars, cvars, fvars, ovars, lvars >>

(***************************************************************************)
(* createExecutionVersion, and handleProcess of the Execution Version page *)
(* that calls it.                                                          *)
(***************************************************************************)
\* The pages of a document of n pages, each tagged with its document and its
\* 0-based index.
PagesOf(src, n) == [k \in 1..n |-> [src |-> src, index |-> k - 1]]

DecimalDigits == << "0","1","2","3","4","5","6","7","8","9" >>

isDigit(c) == \E i \in 1..Len(DecimalDigits) : DecimalDigits[i] = c

digitValue(c) == (CHOOSE i \in 1..Len(DecimalDigits) : DecimalDigits[i] = c) - 1

\* The value of the leading decimal digits of s, continuing from acc.
RECURSIVE digitsValue(_, _)
digitsValue(s, acc) ==
    IF s = << >> \/ ~isDigit(Head(s)) THEN acc
    ELSE digitsValue(Tail(s), 10 * acc + digitValue(Head(s)))

NaN == "NaN"

\* parseInt(s, 10): leading white space skipped, an optional sign, then the
\* run of decimal digits; NaN when no digit follows.
parseInt(s) ==
    LET t == trimStart(s)
        signed == t # << >> /\ Head(t) \in { "-", "+" }
        body == IF signed THEN Tail(t) ELSE t
    IN  IF body = << >> \/ ~isDigit(Head(body)) THEN NaN
        ELSE IF signed /\ Head(t) = "-" THEN 0 - digitsValue(body, 0)
        ELSE digitsValue(body, 0)

\* handleProcess: const pageNum = insertAfter === '' ? -1 : parseInt(insertAfter, 10)
pageNumOf(field) == IF field = << >> THEN 0 - 1 ELSE parseInt(field)

\* The digits typed into the "Insert after page" field.
FieldDigits == { "0", "1", "2", "7" }

RECURSIVE DigitStrings(_)
DigitStrings(n) ==
    IF n = 0 THEN { << >> }
    ELSE LET shorter == DigitStrings(n - 1)
         IN  shorter \cup { Append(d, c) : d \in shorter, c \in FieldDigits }

\* The values the field (an <input type="number">) can hold: the empty string
\* when it is blank or its text is not a number, else the text of a number.
UIFields ==
    { << >> }
       \cup { d : d \in DigitStrings(MaxFieldLen) \ { << >> } }
       \cup { << "-" >> \o d : d \in DigitStrings(MaxFieldLen) \ { << >> } }

\* The field is not involved: the handler was invoked with insertAfter as is.
NoField == << "n/a" >>

\* A clamp that sends a negative value to the front of the document.
insertionPointFront(after, originalPageCount) ==
    IF after < 0 THEN 0
    ELSE IF after >= originalPageCount THEN originalPageCount ELSE after

\* let insertPoint = insertAfter;
\* if (insertPoint < 0 || insertPoint >= originalPageCount) insertPoint = originalPageCount;
insertionPoint(after, originalPageCount) ==
    IF after < 0 \/ after >= originalPageCount THEN originalPageCount ELSE after

\* Array.from({ length: insertPoint }, (_, i) => i)
beforeIndices(point) == [i \in 1..point |-> i - 1]

\* Array.from({ length: signedPageCount }, (_, i) => i)
signedIndices(signedPageCount) == [i \in 1..signedPageCount |-> i - 1]

\* The remaining pages counted one short.
afterIndicesShort(point, originalPageCount) ==
    [i \in 1..(originalPageCount - point - 1) |-> (i - 1) + point]

\* Array.from({ length: originalPageCount - insertPoint }, (_, i) => i + insertPoint)
afterIndices(point, originalPageCount) ==
    [i \in 1..(originalPageCount - point) |-> (i - 1) + point]

\* Pages copied in the reverse of the order asked for.
copyPagesReversed(srcPdf, indices) ==
    [k \in 1..Len(indices) |-> srcPdf[indices[Len(indices) + 1 - k] + 1]]

\* PDFDocument.copyPages(srcPdf, indices): the pages at the 0-based indices,
\* in the order of indices.
copyPages(srcPdf, indices) == [k \in 1..Len(indices) |-> srcPdf[indices[k] + 1]]

\* The option both loads pass: { ignoreEncryption: true }.
IgnoreEncryption == TRUE

\* PDFDocument.load throws on an encrypted document unless ignoreEncryption
\* is set; with it the document is loaded as it is, its content undecrypted.
loadThrowsEncrypted(encrypted, ignoreEncryption) == encrypted /\ ~ignoreEncryption

\* The file at outputPath: absent, cut short by a write that threw, or whole.
NoFile == [state |-> "none"]

PartialFile == [state |-> "partial"]

WholeFile(pages) == [state |-> "complete", pages |-> pages]

\* fs.writeFileSync(outputPath, pdfBytes) returning normally.
writeFileSync(file, pages) == WholeFile(pages)

\* s.replace(/suf$/, '') for a literal suffix.
stripEnd(s, suf) ==
    IF endsWith(s, suf) THEN SubSeq(s, 1, Len(s) - Len(suf)) ELSE s

\* s.replace(/suf$/i, '') for a literal suffix given in lower case.
stripEndIgnoreCase(s, suf) ==
    IF endsWith(toLowerCase(s), suf) THEN SubSeq(s, 1, Len(s) - Len(suf)) ELSE s

DotPdf == << ".","p","d","f" >>

\* The suffixes of the four replace calls, in the order of the calls.
DraftSuffixes ==
    << << "_","C","l","e","a","n" >>,
       << "_","W","i","t","h","o","u","t","_","S","i","g","s" >>,
       << "_","U","n","s","i","g","n","e","d" >>,
       << "_","D","r","a","f","t" >> >>

ExecutionVersionSuffix == << " ","(","E","x","e","c","u","t","i","o","n"," ","V","e","r","s","i","o","n",")" >>

\* const nameWithoutExt: the four replace calls, each applied once, in the
\* order written.
nameWithoutExt(originalBasename) ==
    stripEnd(stripEnd(stripEnd(stripEnd(
        stripEndIgnoreCase(originalBasename, DotPdf),
        DraftSuffixes[1]), DraftSuffixes[2]), DraftSuffixes[3]), DraftSuffixes[4])

\* const outputFilename
outputFilename(originalBasename) ==
    nameWithoutExt(originalBasename) \o ExecutionVersionSuffix \o DotPdf

\* A path: the folder and the basename of a file.
Path(dir, base) == [dir |-> dir, base |-> base]

\* require('os').tmpdir()
TmpDir == "tmpdir"

\* const outputPath = path.join(tempDir, outputFilename)
outputPathOf(original) == Path(TmpDir, outputFilename(original.base))

\* The originals: a draft in the deal folder, and an execution version made
\* earlier, still in the temp folder.
OriginalPaths ==
    { Path("deal", << "D","e","a","l","_","D","r","a","f","t",".","p","d","f" >>),
      Path(TmpDir, << "D","e","a","l"," ","(","E","x","e","c","u","t","i","o","n"," ","V","e","r","s","i","o","n",")",".","p","d","f" >>) }

\* The signed documents: one in the deal folder, and an execution version
\* made earlier, still in the temp folder.
SignedPaths ==
    { Path("deal", << "S","i","g","n","e","d",".","p","d","f" >>),
      Path(TmpDir, << "D","e","a","l"," ","(","E","x","e","c","u","t","i","o","n"," ","V","e","r","s","i","o","n",")",".","p","d","f" >>) }

NoPath == Path("none", << >>)

ExecutionIdle ==
    /\ epc = "idle"
    /\ originalPath = NoPath
    /\ signedPath = NoPath
    /\ originalPdf = << >>
    /\ signedPdf = << >>
    /\ signedEncrypted = FALSE
    /\ insertField = NoField
    /\ insertAfter = 0
    /\ insertPoint = 0
    /\ resultPdf = << >>
    /\ outputFile = NoFile
    /\ eresult = Pending
    /\ progressSent = << >>

\* A throw that is swallowed: the error is noted and the job goes on.
ExecutionSwallows(msg) ==
    /\ epc' = epc
    /\ eresult' = ErrorResult(msg)
    /\ UNCHANGED << originalPath, signedPath, originalPdf, signedPdf, signedEncrypted, insertField,
                    insertAfter, insertPoint, resultPdf >>

\* A step that threw: the handler's catch returns { success: false, error }.
ExecutionFails(msg) ==
    /\ epc' = "failed"
    /\ eresult' = ErrorResult(msg)
    /\ UNCHANGED << originalPath, signedPath, originalPdf, signedPdf, signedEncrypted, insertField,
                    insertAfter, insertPoint, resultPdf >>

\* A step that went through to the position next.
ExecutionGoes(next) ==
    /\ epc' = next
    /\ UNCHANGED << originalPath, signedPath, originalPdf, signedPdf, signedEncrypted, insertField,
                    insertAfter, insertPoint, eresult, outputFile >>

\* handleProcess of the page: pageNum from the field, then the IPC call.
HandleProcess ==
    /\ job = "execution"
    /\ epc = "ui"
    /\ insertAfter' = pageNumOf(insertField)
    /\ epc' = "start"
    /\ UNCHANGED << originalPath, signedPath, originalPdf, signedPdf, signedEncrypted, insertField,
                    insertPoint, resultPdf, outputFile, eresult >>
    /\ UNCHANGED progressSent
    /\ UNCHANGED << job, pvars, nvars, xvars, cvars, fvars, ovars, lvars >>

\* readFileSync(originalPath), PDFDocument.load, getPageCount.
LoadOriginal ==
    /\ job = "execution"
    /\ epc = "start"
    /\ \E ok \in BOOLEAN :
          IF ok
          THEN ExecutionGoes("originalLoaded") /\ UNCHANGED resultPdf
          ELSE ExecutionFails("load original") /\ UNCHANGED outputFile
    /\ progressSent' = Append(progressSent, Event("loading", 10, << >>))
    /\ UNCHANGED << job, pvars, nvars, xvars, cvars, fvars, ovars, lvars >>

\* readFileSync(signedPath), PDFDocument.load with ignoreEncryption,
\* getPageCount, PDFDocument.create.
LoadSigned ==
    /\ job = "execution"
    /\ epc = "originalLoaded"
    /\ \E ok \in BOOLEAN :
          IF ok /\ ~loadThrowsEncrypted(signedEncrypted, IgnoreEncryption)
          THEN /\ ExecutionGoes("signedLoaded") /\ UNCHANGED resultPdf
               /\ progressSent' = Append(Append(progressSent,
                                                Event("loading", 30, << >>)),
                                         Event("merging", 50, << >>))
          ELSE /\ ExecutionFails("load signed") /\ UNCHANGED outputFile
               /\ progressSent' = Append(progressSent, Event("loading", 30, << >>))
    /\ UNCHANGED << job, pvars, nvars, xvars, cvars, fvars, ovars, lvars >>

\* "Determine insertion point".
DetermineInsertionPoint ==
    /\ job = "execution"
    /\ epc = "signedLoaded"
    /\ insertPoint' = insertionPoint(insertAfter, Len(originalPdf))
    /\ epc' = "pointSet"
    /\ UNCHANGED << originalPath, signedPath, originalPdf, signedPdf, signedEncrypted, insertField,
                    insertAfter, resultPdf, outputFile, eresult >>
    /\ UNCHANGED progressSent
    /\ UNCHANGED << job, pvars, nvars, xvars, cvars, fvars, ovars, lvars >>

\* "Copy pages before insertion point"; copyPages may throw.
CopyBefore ==
    /\ job = "execution"
    /\ epc = "pointSet"
    /\ \E ok \in BOOLEAN :
          IF ok \/ insertPoint <= 0
          THEN /\ ExecutionGoes("beforeCopied")
               /\ resultPdf' =
                     IF insertPoint > 0
                     THEN resultPdf \o copyPages(originalPdf, beforeIndices(insertPoint))
                     ELSE resultPdf
          ELSE ExecutionFails("copy before") /\ UNCHANGED outputFile
    /\ progressSent' = IF insertPoint > 0
                       THEN Append(progressSent, Event("merging", 60, << >>))
                       ELSE progressSent
    /\ UNCHANGED << job, pvars, nvars, xvars, cvars, fvars, ovars, lvars >>

\* "Insert signed pages"; copyPages may throw.
InsertSigned ==
    /\ job = "execution"
    /\ epc = "beforeCopied"
    /\ \E ok \in BOOLEAN :
          IF ok
          THEN /\ ExecutionGoes("signedInserted")
               /\ resultPdf' = resultPdf \o copyPages(signedPdf, signedIndices(Len(signedPdf)))
          ELSE ExecutionFails("insert signed") /\ UNCHANGED outputFile
    /\ progressSent' = Append(progressSent, Event("merging", 75, << >>))
    /\ UNCHANGED << job, pvars, nvars, xvars, cvars, fvars, ovars, lvars >>

\* "Copy remaining pages"; copyPages may throw.
CopyRemaining ==
    /\ job = "execution"
    /\ epc = "signedInserted"
    /\ \E ok \in BOOLEAN :
          IF ok \/ insertPoint >= Len(originalPdf)
          THEN /\ ExecutionGoes("remainingCopied")
               /\ resultPdf' =
                     IF insertPoint < Len(originalPdf)
                     THEN resultPdf \o copyPages(originalPdf,
                                                 afterIndices(insertPoint, Len(originalPdf)))
                     ELSE resultPdf
          ELSE ExecutionFails("copy remaining") /\ UNCHANGED outputFile
    /\ progressSent' = IF insertPoint < Len(originalPdf)
                       THEN Append(progressSent, Event("merging", 90, << >>))
                       ELSE progressSent
    /\ UNCHANGED << job, pvars, nvars, xvars, cvars, fvars, ovars, lvars >>

\* resultPdf.save(), writeFileSync and the return value.  save() may throw,
\* leaving no file; writeFileSync may throw after writing part of the file.
SaveExecutionVersion ==
    /\ job = "execution"
    /\ epc = "remainingCopied"
    /\ \E outcome \in { "written", "saveThrows", "writeThrows" } :
          IF outcome = "written"
          THEN /\ epc' = "done"
               /\ outputFile' = writeFileSync(outputFile, resultPdf)
               /\ eresult' = [kind |-> "result", success |-> TRUE,
                              outputPath |-> outputPathOf(originalPath),
                              originalPages |-> Len(originalPdf),
                              signedPages |-> Len(signedPdf),
                              totalPages |-> Len(resultPdf)]
               /\ UNCHANGED << originalPath, signedPath, originalPdf, signedPdf, signedEncrypted, insertField,
                               insertAfter, insertPoint, resultPdf >>
               /\ progressSent' = Append(Append(progressSent,
                                                Event("saving", 95, << >>)),
                                         Event("complete", 100, << >>))
          ELSE /\ ExecutionFails(outcome)
               /\ progressSent' = Append(progressSent, Event("saving", 95, << >>))
               /\ outputFile' = IF outcome = "writeThrows" THEN PartialFile
                                ELSE outputFile
    /\ UNCHANGED << job, pvars, nvars, xvars, cvars, fvars, ovars, lvars >>

(***************************************************************************)
(* normalizeName applied once and twice.                                   *)
(***************************************************************************)
\* The characters raw names are drawn from: a lowercase and an uppercase
\* letter, a punctuation mark normalizeName strips, two white-space
\* characters, and a letter whose capital is two characters long.
NameAlphabet == { "a", "B", ".", " ", "\t", "ß" }

RECURSIVE StringsUpTo(_)
StringsUpTo(n) ==
    IF n = 0 THEN { << >> }
    ELSE LET shorter == StringsUpTo(n - 1)
         IN  shorter \cup { Append(s, c) : s \in shorter, c \in NameAlphabet }

NormalizerIdle ==
    /\ npc = "idle"
    /\ rawName = << >>
    /\ onceName = << >>
    /\ twiceName = << >>

NormalizeOnce ==
    /\ job = "normalize"
    /\ npc = "raw"
    /\ onceName' = normalizeName(rawName)
    /\ npc' = "once"
    /\ UNCHANGED << rawName, twiceName, job, pvars, evars, xvars, cvars, fvars, ovars, lvars >>

NormalizeTwice ==
    /\ job = "normalize"
    /\ npc = "once"
    /\ twiceName' = normalizeName(onceName)
    /\ npc' = "twice"
    /\ UNCHANGED << rawName, onceName, job, pvars, evars, xvars, cvars, fvars, ovars, lvars >>

(***************************************************************************)
(* extractSignersFromText, one BY: anchor at a time.                       *)
(***************************************************************************)
\* The lines the enumerated texts are made of: a BY: anchor, a Name: field
\* with a name, an empty Name: field, a Name: field with a two-letter name, a
\* Name: field left as a dotted blank, a person's name on a line of its own,
\* and an entity's name.
LineKinds ==
    { << "B","y",":" >>,
      << "N","a","m","e",":"," ",".",".","." >>,
      << "N","a","m","e",":"," ","J","o"," ","L","i" >>,
      << "N","a","m","e",":" >>,
      << "N","a","m","e",":"," ","A","l" >>,
      << "A","n","n"," ","L","e","e" >>,
      << "A","B","C"," ","L","L","C" >> }

\* A line neither tier takes anything from.
FillerLine == << "x" >>

\* Longer texts: a Name: field on the last line of the window of 6 lines, one
\* on the line after the window, and a BY : anchor above a Name : field that
\* holds a second colon.
LongTexts ==
    { << << "B","y",":" >>, FillerLine, FillerLine, FillerLine, FillerLine,
         FillerLine, << "N","a","m","e",":"," ","J","o"," ","L","i" >> >>,
      << << "B","y",":" >>, FillerLine, FillerLine, FillerLine, FillerLine,
         FillerLine, FillerLine, << "N","a","m","e",":"," ","J","o"," ","L","i" >>,
         << "A","n","n"," ","L","e","e" >> >>,
      << << "B","Y"," ",":" >>,
         << "N","a","m","e"," ",":"," ","J","o"," ","L","i",":"," ","A","n","n"," ","L","e","e" >> >> }

RECURSIVE LinesUpTo(_)
LinesUpTo(n) ==
    IF n = 0 THEN { << >> }
    ELSE LET shorter == LinesUpTo(n - 1)
         IN  shorter \cup { Append(ls, l) : ls \in shorter, l \in LineKinds }

\* The texts handed to extractSignersFromText: lines joined by line breaks.
ExtractTexts == { join(ls, "\n") : ls \in LinesUpTo(MaxLines) \cup LongTexts }

\* Which tier gave the anchor at line i its signer: 1, 2, or 0 for none.
anchorTier(lines, i) ==
    IF ~isByAnchor(lines[i]) THEN 0
    ELSE IF tier1(lines, i).found THEN 1
    ELSE IF tier2(lines, i).found THEN 2
    ELSE 0

ExtractorIdle ==
    /\ xpc = "idle"
    /\ xtext = << >>
    /\ xlines = << >>
    /\ xi = 1
    /\ xsigners = << >>
    /\ xlog = << >>

\* const lines = text.split(/[\n\r]+/).map(l => l.trim()).filter(l => l);
\* const signers = new Set();
SplitLines ==
    /\ job = "extract"
    /\ xpc = "text"
    /\ xlines' = textLines(xtext)
    /\ xpc' = IF Len(textLines(xtext)) = 0 THEN "done" ELSE "scan"
    /\ UNCHANGED << xtext, xi, xsigners, xlog, job, pvars, evars, nvars, cvars, fvars, ovars, lvars >>

\* One iteration of "for (let i = 0; i < lines.length; i++)".
ScanLine ==
    /\ job = "extract"
    /\ xpc = "scan"
    /\ xi <= Len(xlines)
    /\ xsigners' = setAddAll(xsigners, anchorSigners(xlines, xi))
    /\ xlog' = IF isByAnchor(xlines[xi])
               THEN Append(xlog, [line |-> xi,
                                  tier |-> anchorTier(xlines, xi),
                                  names |-> anchorSigners(xlines, xi)])
               ELSE xlog
    /\ xi' = xi + 1
    /\ xpc' = IF xi = Len(xlines) THEN "done" ELSE "scan"
    /\ UNCHANGED << xtext, xlines, job, pvars, evars, nvars, cvars, fvars, ovars, lvars >>

(***************************************************************************)
(* The handlers that spawn the processor child process: process-folder and *)
(* process-execution-version of main.js, and runPythonProcessor.           *)
(***************************************************************************)
MainHandlers == { "process-folder", "process-execution-version" }

Handlers == MainHandlers \cup { "runPythonProcessor" }

\* What a line of the child's stdout parses to: a JSON message of type
\* progress, result or error, or text that is not JSON.
MessageTypes == { "progress", "result", "error", "noise" }

Null == [type |-> "null"]

\* The shapes of the input argument: a folder path, an object naming a
\* folder, an object naming files, one naming an empty list of files, and an
\* object naming neither.
InputKinds == { "folder", "{ folder }", "{ files }", "{ files: [] }", "{ }" }

\* typeof input === 'string', input.folder or input.files: args is set.
\* An empty array is truthy.
inputAccepted(in) == in \in { "folder", "{ folder }", "{ files }", "{ files: [] }" }

\* process-folder sends a first 'progress' event ahead of every check.
initialProgress(name, log) ==
    IF name = "process-folder" THEN Append(log, "progress") ELSE log

\* The last message of type result among the lines accumulated, or Null.
lastResult(buf) ==
    LET hits == { k \in 1..Len(buf) : buf[k].type = "result" }
    IN  IF hits = { } THEN Null
        ELSE buf[CHOOSE k \in hits : \A h \in hits : k >= h]

ProcessorIdle ==
    /\ handlerName = "none"
    /\ cpc = "idle"
    /\ processorFound = FALSE
    /\ input = "none"
    /\ emitted = << >>
    /\ exitCode = 0 - 1
    /\ received = 0
    /\ stdoutBuf = << >>
    /\ procResult = Null
    /\ promise = "pending"
    /\ settledWith = Null
    /\ ipcLog = << >>

\* proc.on('close', (code) => ...): how the promise is settled, if at all.
closeOutcome(name, code, res, buf) ==
    IF name \in MainHandlers
    THEN IF code = 0 /\ res # Null
         THEN [how |-> "resolved", value |-> res]
         ELSE IF res = Null
              THEN [how |-> "rejected", value |-> [type |-> "Processing failed with code"]]
              ELSE [how |-> "none", value |-> Null]
    ELSE IF code = 0
         THEN IF lastResult(buf) # Null
              THEN [how |-> "resolved", value |-> lastResult(buf)]
              ELSE [how |-> "rejected", value |-> [type |-> "No res from processor"]]
         ELSE [how |-> "rejected", value |-> [type |-> "Process exited with code"]]

\* resolve(value) or reject(error): the first call settles the promise, any
\* later call does nothing.
Settle(how, value) ==
    IF promise = "pending" /\ how # "none"
    THEN /\ promise' = how
         /\ settledWith' = value
         /\ ipcLog' = Append(ipcLog, "settled")
    ELSE UNCHANGED << promise, settledWith, ipcLog >>

\* The handler up to spawn: the processor path and input checks reject and
\* return; otherwise the child process is spawned.
InvokeProcessor ==
    /\ job = "processor"
    /\ cpc = "called"
    /\ IF ~processorFound \/ (handlerName \in MainHandlers /\ ~inputAccepted(input))
       THEN /\ promise' = "rejected"
            /\ settledWith' = [type |-> "not started"]
            /\ ipcLog' = Append(initialProgress(handlerName, ipcLog), "settled")
            /\ cpc' = "returned"
       ELSE /\ cpc' = "running"
            /\ ipcLog' = initialProgress(handlerName, ipcLog)
            /\ UNCHANGED << promise, settledWith >>
    /\ UNCHANGED << handlerName, processorFound, input, emitted, exitCode,
                    received, stdoutBuf, procResult >>
    /\ UNCHANGED << job, pvars, evars, nvars, xvars, fvars, ovars, lvars >>

\* proc.stdout.on('data') for the next line the processor wrote.  The line
\* arrives whole in one chunk, or split over two chunks: the pieces of a split
\* line are no JSON, so the handlers of main.js, which parse each chunk on its
\* own, take nothing from them, while runPythonProcessor still adds the text
\* of both chunks to stdout.
OnStdoutData ==
    /\ job = "processor"
    /\ cpc = "running"
    /\ received < MaxMessages
    /\ \E type \in MessageTypes, split \in BOOLEAN :
          LET msg == [type |-> type, line |-> received + 1]
              parsed == IF split THEN "noise" ELSE type
          IN  /\ emitted' = Append(emitted, msg)
              /\ IF handlerName \in MainHandlers
                 THEN /\ stdoutBuf' = stdoutBuf
                      /\ procResult' = IF parsed = "result" THEN msg ELSE procResult
                      /\ IF parsed = "progress"
                         THEN /\ ipcLog' = Append(ipcLog, "progress")
                              /\ UNCHANGED << promise, settledWith >>
                         ELSE IF parsed = "error"
                              THEN Settle("rejected", msg)
                              ELSE UNCHANGED << promise, settledWith, ipcLog >>
                 ELSE /\ stdoutBuf' = Append(stdoutBuf, msg)
                      /\ procResult' = procResult
                      /\ ipcLog' = IF parsed = "progress"
                                   THEN Append(ipcLog, "progress") ELSE ipcLog
                      /\ UNCHANGED << promise, settledWith >>
    /\ received' = received + 1
    /\ UNCHANGED << handlerName, cpc, processorFound, input, exitCode >>
    /\ UNCHANGED << job, pvars, evars, nvars, xvars, fvars, ovars, lvars >>

\* proc.on('close', (code) => ...), with exit code 0 or 1.
OnClose ==
    /\ job = "processor"
    /\ cpc = "running"
    /\ \E code \in { 0, 1 } :
          LET out == closeOutcome(handlerName, code, procResult, stdoutBuf)
          IN  /\ Settle(out.how, out.value)
              /\ exitCode' = code
    /\ cpc' = "closed"
    /\ UNCHANGED << handlerName, processorFound, input, emitted, received,
                    stdoutBuf, procResult >>
    /\ UNCHANGED << job, pvars, evars, nvars, xvars, fvars, ovars, lvars >>

\* proc.on('error', (err) => reject(err)): the process could not be spawned.
OnError ==
    /\ job = "processor"
    /\ cpc = "running"
    /\ received = 0
    /\ Settle("rejected", [type |-> "spawn error"])
    /\ cpc' = "errored"
    /\ UNCHANGED << handlerName, processorFound, input, emitted, exitCode,
                    received, stdoutBuf, procResult >>
    /\ UNCHANGED << job, pvars, evars, nvars, xvars, fvars, ovars, lvars >>

(***************************************************************************)
(* isProbablePerson applied to one name.                                   *)
(***************************************************************************)
\* The words names are made of: a plain word, an entity term in capitals, one
\* in lower case, and one inside a longer word.
PersonTokens ==
    { << "A","l" >>,
      << "L","P" >>,
      << "l","l","c" >>,
      << "x","F","u","n","d","s" >> }

\* What stands between two words: a space, two spaces, or a tab.
SepKinds == { << " " >>, << " ", " " >>, << "\t" >> }

\* What stands before the first word and after the last: nothing or a space.
PadKinds == { << >>, << " " >> }

RECURSIVE TokensUpTo(_)
TokensUpTo(n) ==
    IF n = 0 THEN { << >> }
    ELSE LET shorter == TokensUpTo(n - 1)
         IN  shorter \cup { Append(ts, t) : ts \in shorter, t \in PersonTokens }

RECURSIVE joinWith(_, _)
joinWith(parts, sep) ==
    IF parts = << >> THEN << >>
    ELSE IF Len(parts) = 1 THEN parts[1]
    ELSE parts[1] \o sep \o joinWith(Tail(parts), sep)

\* The names handed to isProbablePerson: up to MaxTokens words.
PersonNames ==
    { pad \o joinWith(ts, sep) \o pad :
        ts \in TokensUpTo(MaxTokens), sep \in SepKinds, pad \in PadKinds }

FunctionIdle ==
    /\ fpc = "idle"
    /\ fin = << >>
    /\ fout = "none"

\* return value of isProbablePerson(name)
ClassifyName ==
    /\ job = "person"
    /\ fpc = "arg"
    /\ fout' = isProbablePerson(fin)
    /\ fpc' = "done"
    /\ UNCHANGED << fin, job, pvars, evars, nvars, xvars, cvars, ovars, lvars >>

(***************************************************************************)
(* createExecutionVersion: the output filename, one basename at a time.    *)
(***************************************************************************)
\* What follows the stem "Deal" in the names of originals: the four tokens,
\* one of them in lower case, and a version mark.
NameParts ==
    Range(DraftSuffixes) \cup
    { << "_","d","r","a","f","t" >>, << "_","v","2" >> }

RECURSIVE PartsUpTo(_)
PartsUpTo(n) ==
    IF n = 0 THEN { << >> }
    ELSE LET shorter == PartsUpTo(n - 1)
         IN  shorter \cup { s \o t : s \in shorter, t \in NameParts }

\* The extensions of the originals.
PdfExtensions == { DotPdf, << ".","P","D","F" >> }

\* Basenames of originals: Deal, up to MaxParts parts, and the extension.
OriginalNames ==
    { << "D","e","a","l" >> \o ps \o ext : ps \in PartsUpTo(MaxParts), ext \in PdfExtensions }

\* The output filename computed from the original's basename.
NameOutput ==
    /\ job = "outputName"
    /\ fpc = "arg"
    /\ fout' = outputFilename(fin)
    /\ fpc' = "done"
    /\ UNCHANGED << fin, job, pvars, evars, nvars, xvars, cvars, ovars, lvars >>

(***************************************************************************)
(* Two invocations of ipcMain.handle('process-signature-packets') that     *)
(* overlap in time.  Invocation h is handed one file, its own.             *)
(***************************************************************************)
Invocations == { 1, 2 }

Stamps == 0..MaxClock

\* No stamp taken yet.
NoStamp == -1

EmptyFolder == [inputs |-> { }, packets |-> { }]

NoZip == [by |-> 0, packets |-> { }]

OverlapIdle ==
    /\ clock = 0
    /\ hpc = [h \in Invocations |-> "idle"]
    /\ tempDirOf = [h \in Invocations |-> NoStamp]
    /\ filesOf = [h \in Invocations |-> { }]
    /\ zipPathOf = [h \in Invocations |-> NoStamp]
    /\ tempRoot = [t \in Stamps |-> EmptyFolder]
    /\ zipFiles = [t \in Stamps |-> NoZip]

\* A millisecond passes.
Tick ==
    /\ job = "overlap"
    /\ clock < MaxClock
    /\ clock' = clock + 1
    /\ UNCHANGED << hpc, tempDirOf, filesOf, zipPathOf, tempRoot, zipFiles,
                    job, pvars, evars, nvars, xvars, cvars, fvars, lvars >>

\* The handler up to its first await: const tempDir = ... + Date.now(),
\* mkdirSync(tempDir, { recursive: true }), which accepts a folder that
\* exists, the copy of the input, and processSignaturePackets' readdirSync.
BeginJob(h) ==
    /\ job = "overlap"
    /\ hpc[h] = "idle"
    /\ LET folder == [tempRoot[clock] EXCEPT !.inputs = @ \cup { h }]
       IN  /\ tempDirOf' = [tempDirOf EXCEPT ![h] = clock]
           /\ tempRoot' = [tempRoot EXCEPT ![clock] = folder]
           /\ filesOf' = [filesOf EXCEPT ![h] = folder.inputs]
    /\ hpc' = [hpc EXCEPT ![h] = "scanning"]
    /\ UNCHANGED << clock, zipPathOf, zipFiles,
                    job, pvars, evars, nvars, xvars, cvars, fvars, lvars >>

\* The scan loop and the packet loop: a packet for the signer of every file
\* listed is written to tempDir/signature_packets_output/packets.
PackageJob(h) ==
    /\ job = "overlap"
    /\ hpc[h] = "scanning"
    /\ tempRoot' = [tempRoot EXCEPT ![tempDirOf[h]].packets = @ \cup filesOf[h]]
    /\ hpc' = [hpc EXCEPT ![h] = "packaged"]
    /\ UNCHANGED << clock, tempDirOf, filesOf, zipPathOf, zipFiles,
                    job, pvars, evars, nvars, xvars, cvars, fvars, lvars >>

\* const zipPath = ... + Date.now() + '.zip' and createZipFromDirectory, whose
\* fs.createWriteStream(outputPath) replaces a file that exists.
ZipJob(h) ==
    /\ job = "overlap"
    /\ hpc[h] = "packaged"
    /\ zipPathOf' = [zipPathOf EXCEPT ![h] = clock]
    /\ zipFiles' = [zipFiles EXCEPT ![clock] =
                       [by |-> h, packets |-> tempRoot[tempDirOf[h]].packets]]
    /\ hpc' = [hpc EXCEPT ![h] = "done"]
    /\ UNCHANGED << clock, tempDirOf, filesOf, tempRoot,
                    job, pvars, evars, nvars, xvars, cvars, fvars, lvars >>

(***************************************************************************)
(* The login handlers of main.js: login-user, request-verification-code    *)
(* and complete-2fa-login, and the verification_codes table.               *)
(***************************************************************************)
\* crypto.pbkdf2Sync(password, salt, ...) with the salt of the stored hash.
pbkdf2Sync(password) == << "hash", password >>

\* The users table: id -> username, password_hash and email.  The third
\* user has no email address.
users ==
    ( "u1" :> [username |-> << "a", "n", "n" >>,
               password_hash |-> pbkdf2Sync("pw-ann"), email |-> "ann@firm"] ) @@
    ( "u2" :> [username |-> << "b", "o", "b" >>,
               password_hash |-> pbkdf2Sync("pw-bob"), email |-> "bob@firm"] ) @@
    ( "u3" :> [username |-> << "c", "y" >>,
               password_hash |-> pbkdf2Sync("pw-cy"), email |-> ""] )

\* The usernames typed: those of the users, one in capitals with a blank
\* ahead, one unknown, and none.
UsernamesTyped ==
    { << "a", "n", "n" >>, << " ", "B", "o", "b" >>, << "c", "y" >>,
      << "z", "e", "d" >>, << >> }

PasswordsTyped == { "", "pw-ann", "pw-bob", "pw-cy" }

\* A verification code: six times the same digit.
CodeOf(d) == [k \in 1..6 |-> d]

\* Math.floor(100000 + Math.random() * 900000).toString()
generateVerificationCode == { CodeOf("1"), CodeOf("2") }

\* The codes presented: the codes that can be generated, a short one, none.
CodesPresented == generateVerificationCode \cup { << "1", "2", "3" >>, << >> }

\* The arguments userId and email of request-verification-code: neither, a
\* user id alone (the last one unknown), an email alone (the last one of no
\* user).
RequestArgs ==
    { [userId |-> "", email |-> ""],
      [userId |-> "u1", email |-> ""],
      [userId |-> "u2", email |-> ""],
      [userId |-> "u3", email |-> ""],
      [userId |-> "u9", email |-> ""],
      [userId |-> "", email |-> "ann@firm"],
      [userId |-> "", email |-> "eve@else"] }

CodeTypes == { "login", "email_verify" }

\* password verification
verifyPassword(password, storedHash) == pbkdf2Sync(password) = storedHash

\* UPDATE verification_codes SET used = 1 WHERE user_id = ... AND type = ...
\* AND used = 0
invalidate(rows, userId, type) ==
    [k \in 1..Len(rows) |->
        IF rows[k].user_id = userId /\ rows[k].type = type /\ rows[k].used = 0
        THEN [rows[k] EXCEPT !.used = 1]
        ELSE rows[k]]

\* INSERT INTO verification_codes (user_id, code, type, expires_at), with
\* expiresAt = Date.now() + 10 * 60 * 1000.
insertCode(rows, userId, code, type, now) ==
    Append(rows, [user_id |-> userId, code |-> code, type |-> type,
                  created_at |-> now, expires_at |-> now + CodeLifetime,
                  used |-> 0])

\* An update that changes no row.
markUsedNowhere(rows, codeId) == rows

\* UPDATE verification_codes SET used = 1 WHERE id = codeId
markUsed(rows, codeId) == [rows EXCEPT ![codeId].used = 1]

\* SELECT id, expires_at FROM verification_codes WHERE user_id = ... AND
\* code = ... AND type = 'login' AND used = 0 ORDER BY created_at DESC LIMIT 1:
\* the ids the query may return.
findValidCode(rows, userId, code) ==
    LET matching == { k \in 1..Len(rows) :
                        /\ rows[k].user_id = userId
                        /\ rows[k].code = code
                        /\ rows[k].type = "login"
                        /\ rows[k].used = 0 }
    IN  { k \in matching :
            \A j \in matching : rows[j].created_at <= rows[k].created_at }

\* new Date(expiresAt) < new Date()
expired(expiresAt, now) == expiresAt < now

\* SELECT id ... FROM users WHERE username = ...
userIdsNamed(username) == { id \in DOMAIN users : users[id].username = username }

\* SELECT id FROM users WHERE email = ...
userIdsWithEmail(email) == { id \in DOMAIN users : users[id].email = email }

Reply(handler, success, error) ==
    [handler |-> handler, success |-> success, error |-> error]

NoReply == Reply("none", FALSE, "")

LoginIdle ==
    /\ dateNow = 0
    /\ verification_codes = << >>
    /\ insertedBy = << >>
    /\ sessions = << >>
    /\ reply = NoReply

\* Time passes.
Later ==
    /\ job = "login"
    /\ dateNow < MaxTime
    /\ dateNow' = dateNow + 1
    /\ UNCHANGED << verification_codes, insertedBy, sessions, reply,
                    job, pvars, evars, nvars, xvars, cvars, fvars, ovars >>

\* ipcMain.handle('login-user').
LoginUser ==
    /\ job = "login"
    /\ \E username \in UsernamesTyped, password \in PasswordsTyped :
          LET found == userIdsNamed(trim(toLowerCase(username)))
              id == CHOOSE u \in found : TRUE
          IN  IF username = << >> \/ password = ""
              THEN /\ reply' = Reply("login-user", FALSE,
                                     "Username and password are required")
                   /\ UNCHANGED << verification_codes, insertedBy >>
              ELSE IF found = { }
              THEN /\ reply' = Reply("login-user", FALSE, "User not found")
                   /\ UNCHANGED << verification_codes, insertedBy >>
              ELSE IF ~verifyPassword(password, users[id].password_hash)
              THEN /\ reply' = Reply("login-user", FALSE, "Invalid password")
                   /\ UNCHANGED << verification_codes, insertedBy >>
              ELSE IF users[id].email # ""
              THEN /\ Len(verification_codes) < MaxCodes
                   /\ \E code \in generateVerificationCode :
                         verification_codes' =
                            insertCode(invalidate(verification_codes, id, "login"),
                                       id, code, "login", dateNow)
                   /\ insertedBy' = Append(insertedBy, "login-user")
                   /\ reply' = Reply("login-user", TRUE, "")
              ELSE /\ reply' = Reply("login-user", FALSE,
                                     "Email address required for login.")
                   /\ UNCHANGED << verification_codes, insertedBy >>
    /\ UNCHANGED << dateNow, sessions,
                    job, pvars, evars, nvars, xvars, cvars, fvars, ovars >>

\* ipcMain.handle('request-verification-code').
RequestVerificationCode ==
    /\ job = "login"
    /\ \E args \in RequestArgs, type \in CodeTypes :
          LET userId == args.userId
              email == args.email
              byEmail == userIdsWithEmail(email)
              userEmail == IF userId # "" /\ email = "" /\ userId \in DOMAIN users
                           THEN users[userId].email
                           ELSE email
              resolvedUserId == IF email # "" /\ userId = "" /\ byEmail # { }
                                THEN CHOOSE u \in byEmail : TRUE
                                ELSE userId
          IN  IF userId = "" /\ email = ""
              THEN /\ reply' = Reply("request-verification-code", FALSE,
                                     "User ID or email required")
                   /\ UNCHANGED << verification_codes, insertedBy >>
              ELSE IF userId # "" /\ email = "" /\ userId \notin DOMAIN users
              THEN /\ reply' = Reply("request-verification-code", FALSE,
                                     "User not found")
                   /\ UNCHANGED << verification_codes, insertedBy >>
              ELSE IF userEmail = ""
              THEN /\ reply' = Reply("request-verification-code", FALSE,
                                     "No email address on file.")
                   /\ UNCHANGED << verification_codes, insertedBy >>
              ELSE /\ Len(verification_codes) < MaxCodes
                   /\ \E code \in generateVerificationCode :
                         verification_codes' =
                            insertCode(IF resolvedUserId # ""
                                       THEN invalidate(verification_codes,
                                                       resolvedUserId, type)
                                       ELSE verification_codes,
                                       IF resolvedUserId # "" THEN resolvedUserId
                                       ELSE "pending",
                                       code, type, dateNow)
                   /\ insertedBy' = Append(insertedBy, "request-verification-code")
                   /\ reply' = Reply("request-verification-code",
                                     TRUE, "")
    /\ UNCHANGED << dateNow, sessions,
                    job, pvars, evars, nvars, xvars, cvars, fvars, ovars >>

\* ipcMain.handle('complete-2fa-login').
Complete2faLogin ==
    /\ job = "login"
    /\ \E userId \in (DOMAIN users) \cup { "pending" }, code \in CodesPresented :
          LET codeResult == findValidCode(verification_codes, userId, code)
          IN  IF Len(code) # 6
              THEN /\ reply' = Reply("complete-2fa-login", FALSE,
                                     "Invalid verification code")
                   /\ UNCHANGED << verification_codes, sessions >>
              ELSE IF codeResult = { }
              THEN /\ reply' = Reply("complete-2fa-login", FALSE,
                                     "Invalid verification code")
                   /\ UNCHANGED << verification_codes, sessions >>
              ELSE \E codeId \in codeResult :
                      IF expired(verification_codes[codeId].expires_at, dateNow)
                      THEN /\ reply' = Reply("complete-2fa-login", FALSE,
                                             "Verification code has expired")
                           /\ UNCHANGED << verification_codes, sessions >>
                      ELSE /\ verification_codes' = markUsed(verification_codes, codeId)
                           /\ IF userId \notin DOMAIN users
                              THEN /\ reply' = Reply("complete-2fa-login",
                                                     FALSE, "User not found")
                                   /\ UNCHANGED sessions
                              ELSE /\ reply' = Reply("complete-2fa-login",
                                                     TRUE, "")
                                   /\ sessions' =
                                         Append(sessions,
                                                [user |-> userId, codeId |-> codeId,
                                                 at |-> dateNow,
                                                 rows |-> Len(verification_codes)])
    /\ UNCHANGED << dateNow, insertedBy,
                    job, pvars, evars, nvars, xvars, cvars, fvars, ovars >>

(***************************************************************************)
(* Specifications.                                                         *)
(***************************************************************************)
\* A packet job over up to MaxFiles distinct files of the disk, in any order.
Init ==
    /\ job = "packets"
    /\ PacketsFresh
    /\ filePaths \in SeqsNoRepeat(FileIds, MaxFiles)
    /\ ExecutionIdle
    /\ NormalizerIdle
    /\ ExtractorIdle
    /\ ProcessorIdle
    /\ FunctionIdle
    /\ OverlapIdle
    /\ LoginIdle

Next ==
    \/ StartPacketJob
    \/ ScanDocument
    \/ CheckSigners
    \/ BuildPacket
    \/ FinishPacketJob

Spec == Init /\ [][Next]_vars

\* An execution-version job for every page count, with the signed document
\* encrypted or not, started from the page with any field value or invoked
\* with any insertAfter in bounds.
ExecInit ==
    /\ job = "execution"
    /\ PacketsIdle
    /\ NormalizerIdle
    /\ ExtractorIdle
    /\ ProcessorIdle
    /\ FunctionIdle
    /\ OverlapIdle
    /\ LoginIdle
    /\ originalPath \in OriginalPaths
    /\ signedPath \in SignedPaths
    /\ originalPdf \in { PagesOf("original", n) : n \in 0..MaxOrigPages }
    /\ signedPdf \in { PagesOf("signed", n) : n \in 0..MaxSignedPages }
    /\ signedEncrypted \in BOOLEAN
    /\ \/ /\ epc = "ui"
          /\ insertField \in UIFields
          /\ insertAfter = 0
       \/ /\ epc = "start"
          /\ insertField = NoField
          /\ insertAfter \in (0 - InsertSlack)..(MaxOrigPages + InsertSlack)
    /\ insertPoint = 0
    /\ resultPdf = << >>
    /\ outputFile = NoFile
    /\ eresult = Pending
    /\ progressSent = << >>

ExecNext ==
    \/ HandleProcess
    \/ LoadOriginal
    \/ LoadSigned
    \/ DetermineInsertionPoint
    \/ CopyBefore
    \/ InsertSigned
    \/ CopyRemaining
    \/ SaveExecutionVersion

ExecSpec == ExecInit /\ [][ExecNext]_vars

\* normalizeName on every raw name of at most MaxNameLen characters.
NormInit ==
    /\ job = "normalize"
    /\ PacketsIdle
    /\ ExecutionIdle
    /\ ExtractorIdle
    /\ ProcessorIdle
    /\ FunctionIdle
    /\ OverlapIdle
    /\ LoginIdle
    /\ npc = "raw"
    /\ rawName \in StringsUpTo(MaxNameLen)
    /\ onceName = << >>
    /\ twiceName = << >>

NormNext ==
    \/ NormalizeOnce
    \/ NormalizeTwice

NormSpec == NormInit /\ [][NormNext]_vars

\* extractSignersFromText on every text of at most MaxLines lines and on the
\* longer texts.
ExtractInit ==
    /\ job = "extract"
    /\ PacketsIdle
    /\ ExecutionIdle
    /\ NormalizerIdle
    /\ ProcessorIdle
    /\ FunctionIdle
    /\ OverlapIdle
    /\ LoginIdle
    /\ xpc = "text"
    /\ xtext \in ExtractTexts
    /\ xlines = << >>
    /\ xi = 1
    /\ xsigners = << >>
    /\ xlog = << >>

ExtractNext ==
    \/ SplitLines
    \/ ScanLine

ExtractSpec == ExtractInit /\ [][ExtractNext]_vars

\* An invocation of each handler, with the processor present or not, the
\* input valid or not, and any lines on stdout before the process closes.
ProcInit ==
    /\ job = "processor"
    /\ PacketsIdle
    /\ ExecutionIdle
    /\ NormalizerIdle
    /\ ExtractorIdle
    /\ FunctionIdle
    /\ OverlapIdle
    /\ LoginIdle
    /\ handlerName \in Handlers
    /\ cpc = "called"
    /\ processorFound \in BOOLEAN
    /\ input \in InputKinds
    /\ emitted = << >>
    /\ exitCode = 0 - 1
    /\ received = 0
    /\ stdoutBuf = << >>
    /\ procResult = Null
    /\ promise = "pending"
    /\ settledWith = Null
    /\ ipcLog = << >>

ProcNext ==
    \/ InvokeProcessor
    \/ OnStdoutData
    \/ OnClose
    \/ OnError

ProcSpec == ProcInit /\ [][ProcNext]_vars

\* isProbablePerson on every name of at most MaxTokens words.
PersonInit ==
    /\ job = "person"
    /\ PacketsIdle
    /\ ExecutionIdle
    /\ NormalizerIdle
    /\ ExtractorIdle
    /\ ProcessorIdle
    /\ fpc = "arg"
    /\ fin \in PersonNames
    /\ fout = "none"
    /\ OverlapIdle
    /\ LoginIdle

PersonNext ==
    ClassifyName

PersonSpec == PersonInit /\ [][PersonNext]_vars

\* The output filename for every original of at most MaxParts parts.
NameInit ==
    /\ job = "outputName"
    /\ PacketsIdle
    /\ ExecutionIdle
    /\ NormalizerIdle
    /\ ExtractorIdle
    /\ ProcessorIdle
    /\ fpc = "arg"
    /\ fin \in OriginalNames
    /\ fout = "none"
    /\ OverlapIdle
    /\ LoginIdle

NameNext ==
    NameOutput

NameSpec == NameInit /\ [][NameNext]_vars

\* The packet job run twice over the same folder of up to MaxRerunFiles files.
RerunInit ==
    /\ job = "rerun"
    /\ PacketsFresh
    /\ filePaths \in SeqsNoRepeat(FileIds, MaxRerunFiles)
    /\ ExecutionIdle
    /\ NormalizerIdle
    /\ ExtractorIdle
    /\ ProcessorIdle
    /\ FunctionIdle
    /\ OverlapIdle
    /\ LoginIdle

RerunNext ==
    \/ StartPacketJob
    \/ ScanDocument
    \/ CheckSigners
    \/ BuildPacket
    \/ FinishPacketJob
    \/ RunAgain

RerunSpec == RerunInit /\ [][RerunNext]_vars

\* Two packet jobs started by the renderer one after the other, the second
\* before the first has returned.
OverlapInit ==
    /\ job = "overlap"
    /\ PacketsIdle
    /\ ExecutionIdle
    /\ NormalizerIdle
    /\ ExtractorIdle
    /\ ProcessorIdle
    /\ FunctionIdle
    /\ OverlapIdle
    /\ LoginIdle

OverlapNext ==
    \/ Tick
    \/ \E h \in Invocations : BeginJob(h)
    \/ \E h \in Invocations : PackageJob(h)
    \/ \E h \in Invocations : ZipJob(h)

OverlapSpec == OverlapInit /\ [][OverlapNext]_vars

\* The renderer calls the login handlers in any order, with any arguments.
LoginInit ==
    /\ job = "login"
    /\ PacketsIdle
    /\ ExecutionIdle
    /\ NormalizerIdle
    /\ ExtractorIdle
    /\ ProcessorIdle
    /\ FunctionIdle
    /\ OverlapIdle
    /\ LoginIdle

LoginNext ==
    \/ Later
    \/ LoginUser
    \/ RequestVerificationCode
    \/ Complete2faLogin

LoginSpec == LoginInit /\ [][LoginNext]_vars

\* The two jobs of the JavaScript engine: a packet job or an
\* execution-version job.
JobsInit == Init \/ ExecInit

JobsNext == Next \/ ExecNext

JobsSpec == JobsInit /\ [][JobsNext]_vars

(***************************************************************************)
(* What the documents hold, page by page: the reference the packet job is  *)
(* compared with.                                                          *)
(***************************************************************************)
\* The text drawn on page p of a document.
pageText(doc, p) ==
    LET onPage(frag) == frag.page = p
        shown == SelectSeq(doc.frags, onPage)
    IN  join([k \in 1..Len(shown) |-> shown[k].text], " ")

\* The signers found on each page of each file, taking the page's text alone.
SignersOnPage ==
    [id \in FileIds |->
        [p \in 1..Disk[id].pageCount |-> extractSignersFromText(pageText(Disk[id], p))]]

\* The number of signature keywords in the text of each file.
KeywordHitsOfFile ==
    [id \in FileIds |-> keywordHits(extractTextFromPdfBuffer(Disk[id]))]

\* The files the scan loop has loaded so far.
ScannedNames ==
    { files[k] : k \in { j \in 1..Len(files) : j < scanIdx /\ Disk[tempDir[files[j]]].loadable } }

\* The pages of a written packet, as a set of [doc, page] references.
PacketRefs(packet) == Range(packet.pages)

\* The position of each document in the listing the job scanned.
ScanPos ==
    [f \in Range(files) |-> CHOOSE k \in 1..Len(files) : files[k] = f]

\* The position, in the order the caller supplied the inputs, of the file
\* scanned under each name.
SuppliedPos ==
    [f \in Range(files) |->
        CHOOSE k \in 1..Len(filePaths) : filePaths[k] = tempDir[f]]

Succeeded == result.kind = "result" /\ result.success

\* A warning was emitted about x (a file name or a signer name).
WarnedAbout(x) ==
    \E k \in 1..Len(events) : events[k].stage = "warning" /\ events[k].about = x

(***************************************************************************)
(* C1.  A signer's packet contains exactly the pages on which that signer  *)
(* was detected and no other page (2 pages for John Smith on p.87 of a     *)
(* 100-page and p.12 of a 20-page document), not every page of the         *)
(* documents in which the signer appears.                                  *)
(* The code records every page 1..pageCount of a document in which the     *)
(* signer is found, so the statement is violated.                          *)
(***************************************************************************)
C1_PacketHoldsExactlyDetectedPages ==
    \A k \in 1..Len(packetFiles) :
        LET packet == packetFiles[k]
            detectedIn(f) ==
                { p \in 1..Disk[tempDir[f]].pageCount :
                    packet.signer \in Range(SignersOnPage[tempDir[f]][p]) }
            detected ==
                UNION { { [doc |-> f, page |-> p] : p \in detectedIn(f) } :
                          f \in ScannedNames }
        IN  /\ PacketRefs(packet) = detected
            /\ Len(packet.pages) = Cardinality(detected)

(***************************************************************************)
(* C2.  For every execution-version job that completes successfully, with  *)
(* an original of P pages, a signed document of S pages and any integer    *)
(* insertAfter, the output has exactly P + S pages and the result's        *)
(* totalPages equals originalPages + signedPages.                          *)
(***************************************************************************)
C2_PageCountInvariant ==
    (epc = "done") =>
        /\ eresult.kind = "result" /\ eresult.success
        /\ Len(resultPdf) = Len(originalPdf) + Len(signedPdf)
        /\ eresult.originalPages = Len(originalPdf)
        /\ eresult.signedPages = Len(signedPdf)
        /\ eresult.totalPages = eresult.originalPages + eresult.signedPages

\* C2 witness: a job that completed with an insertAfter beyond the original's
\* last page, both documents non-empty.
C2_Witness ==
    /\ epc = "done"
    /\ insertAfter > Len(originalPdf)
    /\ Len(originalPdf) >= 2
    /\ Len(signedPdf) >= 1

(***************************************************************************)
(* C3.  With effective insertion point k (0 <= k <= P) the output is       *)
(* original pages 0..k-1 in order, then all signed pages in order, then    *)
(* original pages k..P-1 in order: nothing dropped, duplicated, reordered. *)
(***************************************************************************)
C3_SpliceOrder ==
    (epc \in { "remainingCopied", "done" }) =>
        /\ 0 <= insertPoint /\ insertPoint <= Len(originalPdf)
        /\ resultPdf = SubSeq(originalPdf, 1, insertPoint)
                          \o signedPdf
                          \o SubSeq(originalPdf, insertPoint + 1, Len(originalPdf))

\* C3 witness: a completed splice strictly inside the original, with at least
\* two signed pages.
C3_Witness ==
    /\ epc = "done"
    /\ 0 < insertPoint /\ insertPoint < Len(originalPdf)
    /\ Len(signedPdf) >= 2
    /\ insertAfter = insertPoint

(***************************************************************************)
(* C4.  Within every signer's packet, pages are ordered by the position of *)
(* their source document in the order the caller supplied the inputs, then *)
(* by ascending page index within a document.                              *)
(* The job scans the working folder in the order readdirSync lists it, not *)
(* in the order of filePaths, so the statement as made is violated; it     *)
(* holds with the scan order in place of the supplied order.               *)
(***************************************************************************)
\* Consecutive pages of every packet ascend under the document position pos.
PacketsOrderedBy(pos) ==
    \A k \in 1..Len(packetFiles) :
        LET pages == packetFiles[k].pages
        IN  \A a \in 1..(Len(pages) - 1) :
               \/ pos[pages[a].doc] < pos[pages[a + 1].doc]
               \/ /\ pages[a].doc = pages[a + 1].doc
                  /\ pages[a].page < pages[a + 1].page

\* C4 as stated: ordered by the position in the order supplied by the caller.
C4_OrderedBySuppliedOrder == PacketsOrderedBy(SuppliedPos)

\* C4 amended: ordered by the position in the scan order of the working
\* folder, then by ascending page index.
C4_OrderedByScanOrder == PacketsOrderedBy(ScanPos)

\* C4 witness: a written packet with pages of two documents, one of them with
\* several pages.
C4_Witness ==
    /\ pc = "done"
    /\ Succeeded
    /\ \E k \in 1..Len(packetFiles) :
          LET pages == packetFiles[k].pages
          IN  /\ Len(pages) >= 4
              /\ \E a, b \in 1..Len(pages) : pages[a].doc # pages[b].doc

(***************************************************************************)
(* C5.  Each Signer in the Page Index receives exactly one packet per run; *)
(* the packet contains the signer's pages from every input document in     *)
(* which the signer was detected and zero pages from any other document.   *)
(* A signer whose assembly threw (a warning is emitted) or whose documents *)
(* hold no page receives no packet, so "exactly one" is violated.          *)
(***************************************************************************)
\* The packet files written for a signer.
PacketsOf(signer) == { k \in 1..Len(packetFiles) : packetFiles[k].signer = signer }

\* The documents of the run in which the signer was detected.
DetectedDocs(signer) ==
    { f \in ScannedNames : signer \in Range(SignersOfFile[tempDir[f]]) }

\* The pages the Page Index records for an entry, as [doc, page] references.
RecordedRefs(entry) ==
    UNION { { [doc |-> entry.docs[d].docName, page |-> p] :
                 p \in Range(entry.docs[d].pages) } : d \in 1..Len(entry.docs) }

\* A written packet holds all recorded pages of its signer, each once, from
\* the documents the signer was detected in and from no other.
PacketHoldsSignersPages(entry) ==
    \A k \in PacketsOf(entry.signer) :
        /\ PacketRefs(packetFiles[k]) = RecordedRefs(entry)
        /\ Len(packetFiles[k].pages) = Cardinality(RecordedRefs(entry))
        /\ \A ref \in PacketRefs(packetFiles[k]) : ref.doc \in DetectedDocs(entry.signer)
        /\ \A f \in DetectedDocs(entry.signer) :
              Disk[tempDir[f]].pageCount > 0 =>
                 \E ref \in PacketRefs(packetFiles[k]) : ref.doc = f

ContainsEntityTerm(name) ==
    \E term \in entityTerms : includes(toUpperCase(name), term)

C6_NoEntitySigner ==
    \A s \in 1..Len(signerDocPages) : ~ContainsEntityTerm(signerDocPages[s].signer)

(***************************************************************************)
(* C7.  If no signer has been detected after all input documents were      *)
(* scanned, the packet job fails with a "no signers detected" error,       *)
(* creates no output directory and writes no packet file; it never returns *)
(* a successful result with an empty signer set.                           *)
(***************************************************************************)
C7_EmptySignerSetIsFatal ==
    /\ Succeeded => Len(signerDocPages) > 0
    /\ (Len(signerDocPages) = 0) =>
          /\ "signature_packets_output" \notin dirsCreated
          /\ "packets" \notin dirsCreated
          /\ packetFiles = << >>
          /\ packetsCreated = << >>
    /\ (pc = "done" /\ Len(files) > 0 /\ Len(signerDocPages) = 0) =>
          result = ErrorResult(ErrNoSigners)

\* C7 witness: a job that scanned two documents, found no signer and ended.
C7_Witness ==
    /\ pc = "done"
    /\ Len(files) >= 2
    /\ scanIdx > Len(files)
    /\ Len(signerDocPages) = 0
    /\ result = ErrorResult(ErrNoSigners)

(***************************************************************************)
(* C8.  Name normalization is idempotent: for every string s,              *)
(* normalizeName(normalizeName(s)) equals normalizeName(s).                *)
(***************************************************************************)
C8_NormalizeIdempotent ==
    (npc = "twice") => twiceName = onceName

\* C8 witness: the raw name "a . a" (a punctuation mark between two spaces,
\* which stripping turns into a run of white space), normalized twice to
\* "A A".
C8_Witness ==
    /\ npc = "twice"
    /\ rawName = << "a", " ", ".", " ", "a" >>
    /\ onceName = << "A", " ", "A" >>
    /\ twiceName = << "A", " ", "A" >>

(***************************************************************************)
(* C9.  Raw names that differ only in letter case, in '.' and ','          *)
(* characters and in repeated, leading or trailing white space normalize   *)
(* to the same key ("John Smith", "JOHN SMITH" and "John  Smith." all give *)
(* "JOHN SMITH"), and a run in which one signer appears under such         *)
(* variants records one Signer and produces one packet, not one per        *)
(* variant.                                                                *)
(***************************************************************************)
\* s with the character at position i replaced by c.
ReplaceAt(s, i, c) == [k \in 1..Len(s) |-> IF k = i THEN c ELSE s[k]]

\* s with the character c inserted after position i (0 <= i <= Len(s)).
InsertAt(s, i, c) == SubSeq(s, 1, i) \o << c >> \o SubSeq(s, i + 1, Len(s))

\* The strings one step away from s: one letter in the other case, one '.'
\* or ',' more, or one more white-space character at an end or next to a
\* white-space character.
OneStepVariants(s) ==
    { ReplaceAt(s, i, "A") : i \in { k \in 1..Len(s) : s[k] = "a" } }
    \cup { ReplaceAt(s, i, "b") : i \in { k \in 1..Len(s) : s[k] = "B" } }
    \cup { InsertAt(s, i, c) : i \in 0..Len(s), c \in { ".", "," } }
    \cup { InsertAt(s, i, w) :
             i \in { k \in 0..Len(s) :
                        \/ k = 0
                        \/ k = Len(s)
                        \/ s[k] \in WhiteSpace
                        \/ s[k + 1] \in WhiteSpace },
             w \in WhiteSpace }

\* Every one-step variant of every raw name of at most MaxVariantLen
\* characters has the key of that name.
VariantsShareKey ==
    \A s \in StringsUpTo(MaxVariantLen) :
        \A t \in OneStepVariants(s) : normalizeName(t) = normalizeName(s)

\* 'john smith,'
RawJohnSmithLower ==
    << "j","o","h","n"," ","s","m","i","t","h","," >>

\* The spellings under which the documents of the disk name John Smith.
JohnSmithVariants ==
    { RawJohnSmith, JOHN_SMITH, RawJohnSmithDot, RawJohnSmithLower }

\* The keys normalizeName gives those spellings.
JohnSmithKeys == { normalizeName(v) : v \in JohnSmithVariants }

\* The Page Index entries recorded under a key of one of those spellings.
JohnSmithEntries ==
    { s \in 1..Len(signerDocPages) : signerDocPages[s].signer \in JohnSmithKeys }

\* The scanned documents that name John Smith under one of those spellings.
JohnSmithDocs ==
    { f \in ScannedNames : JOHN_SMITH \in Range(SignersOfFile[tempDir[f]]) }

C10_SignersOnlyFromSignatureText ==
    \A s \in 1..Len(signerDocPages) :
        \A d \in 1..Len(signerDocPages[s].docs) :
            KeywordHitsOfFile[tempDir[signerDocPages[s].docs[d].docName]] >= 2

(***************************************************************************)
(* C11.  For each BY: anchor at line i, the Tier 2 proximity fallback is   *)
(* used only if Tier 1 found no Name: candidate in lines i+1..i+6; when    *)
(* Tier 1 finds a Name: line, the text after the colon is that anchor's    *)
(* only candidate, scanning for the anchor stops, and the anchor           *)
(* contributes at most one signer.                                         *)
(* Tier 1 sets foundName only when the Name: field holds more than two     *)
(* characters, so below an empty or two-letter Name: field Tier 2 still    *)
(* runs; and the field ends at the line's second colon.  The statement     *)
(* holds when "found a Name: line" is read as "took a name from the first  *)
(* Name: line".                                                            *)
(***************************************************************************)
\* The position of the first colon of a line that has one.
FirstColon(line) ==
    CHOOSE k \in 1..Len(line) : line[k] = ":" /\ \A m \in 1..(k - 1) : line[m] # ":"

\* The text after the first colon of a line, to the end of the line.
AfterColon(line) == trim(SubSeq(line, FirstColon(line) + 1, Len(line)))

\* The text between the first colon of a line and its next colon, or the end
\* of the line when there is no other colon.
NameFieldOf(line) ==
    LET rest == SubSeq(line, FirstColon(line) + 1, Len(line))
        stops == { k \in 1..Len(rest) : rest[k] = ":" }
        stop == IF stops = {} THEN Len(rest) + 1
                ELSE CHOOSE k \in stops : \A m \in stops : k <= m
    IN  trim(SubSeq(rest, 1, stop - 1))

\* The offsets, within the window of 6 lines below the anchor a log entry is
\* about, of the lines that begin with NAME: or NAME :.
NameOffsets(e) ==
    { j \in 1..WindowSize :
         /\ e.line + j <= Len(xlines)
         /\ LET u == toUpperCase(xlines[e.line + j])
            IN  \/ startsWith(u, << "N","A","M","E",":" >>)
                \/ startsWith(u, << "N","A","M","E"," ",":" >>) }

\* The first Name: line below the anchor of a log entry that has one.
FirstNameLine(e) ==
    xlines[e.line + (CHOOSE j \in NameOffsets(e) : \A g \in NameOffsets(e) : j <= g)]

TextByLineOfFile ==
    [id \in FileIds |-> join([k \in 1..Len(Disk[id].frags) |-> Disk[id].frags[k].text], "\n")]

\* The lines of each file as they are drawn, and as line-splitting finds them
\* in the extracted text.
DrawnLinesOfFile == [id \in FileIds |-> textLines(TextByLineOfFile[id])]

ExtractedLinesOfFile ==
    [id \in FileIds |-> textLines(extractTextFromPdfBuffer(Disk[id]))]

\* The signers of each file when its lines are kept apart.
SignersByLineOfFile == [id \in FileIds |-> extractSignersFromText(TextByLineOfFile[id])]

\* The Page Index records signer for document f.
RecordedFor(signer, f) ==
    \E s \in 1..Len(signerDocPages) :
        /\ signerDocPages[s].signer = signer
        /\ \E d \in 1..Len(signerDocPages[s].docs) : signerDocPages[s].docs[d].docName = f

C12_LineStructureKept ==
    \A f \in ScannedNames :
        /\ ExtractedLinesOfFile[tempDir[f]] = DrawnLinesOfFile[tempDir[f]]
        /\ \A signer \in Range(SignersByLineOfFile[tempDir[f]]) : RecordedFor(signer, f)

(***************************************************************************)
(* C13.  When one input document cannot be read or parsed, only that       *)
(* document is skipped: a warning event naming it is emitted, scanning     *)
(* continues with all remaining documents, and the run does not abort      *)
(* because of it.                                                          *)
(* A document PDFDocument.load cannot parse is skipped with a warning, but *)
(* a path that cannot be read makes fs.copyFileSync throw outside any      *)
(* per-document try, and the whole job ends in an error without a warning. *)
(***************************************************************************)
\* The inputs of the job that are PDF files by name.
PdfInputs == { id \in Range(filePaths) : isPdfName(Disk[id].base) }

\* An input that cannot be read, or cannot be parsed.
Unusable(id) == ~Disk[id].readable \/ ~Disk[id].loadable

\* The scan loop has gone through the document held under a base name.
Scanned(base) ==
    \E k \in 1..Len(files) : files[k] = base /\ k < scanIdx

C13_OnlyBadDocumentSkipped ==
    (pc = "done") =>
        \A bad \in { id \in PdfInputs : Unusable(id) } :
            /\ WarnedAbout(Disk[bad].base)
            /\ \A id \in PdfInputs \ { bad } : Scanned(Disk[id].base)

(***************************************************************************)
(* C14.  When the signed document is password-encrypted (its content is    *)
(* encrypted, not merely permission-restricted), the execution-version job *)
(* ends in failure with an error kind distinct from the successful no-op   *)
(* unlock outcome, and no execution-version output is reported as          *)
(* produced.                                                               *)
(* The signed document is loaded with { ignoreEncryption: true }, so the   *)
(* load does not throw on it: the job goes on, splices the undecrypted     *)
(* pages and returns success with an outputPath; the statement is          *)
(* violated.                                                               *)
(***************************************************************************)
ExecSucceeded == eresult.kind = "result" /\ eresult.success

C14_EncryptedSignedFails ==
    signedEncrypted =>
        /\ ~ExecSucceeded
        /\ epc # "done"
        /\ outputFile = NoFile

(***************************************************************************)
(* C15.  An execution-version job passes through its steps strictly in the *)
(* order load original, load signed, unlock restrictions, determine        *)
(* insertion point, splice, save, done; a failure in any step ends the job *)
(* in the failed outcome, after which no later step runs and no success    *)
(* result is returned.                                                     *)
(* In createExecutionVersion the restrictions are lifted by the option     *)
(* ignoreEncryption of the load of the signed document, so "load signed"   *)
(* and "unlock restrictions" are one step; splice is the three copies.     *)
(***************************************************************************)
\* The positions of a job in the order of the steps that lead to them: the
\* call, load original, load signed (and unlock), determine insertion point,
\* the three copies of the splice, save.
ExecPositions ==
    << "start", "originalLoaded", "signedLoaded", "pointSet", "beforeCopied",
       "signedInserted", "remainingCopied", "done" >>

ExecPositionNo(p) == CHOOSE i \in 1..Len(ExecPositions) : ExecPositions[i] = p

\* One step of a job: to the next position or to failed, never back, never
\* past a step; nothing moves once the job is done or failed; a success
\* result comes with the step to done and an error with the step to failed.
ExecStepInOrder ==
    /\ (epc' # epc) =>
          /\ epc \notin { "done", "failed" }
          /\ \/ epc' = "failed" /\ epc # "ui"
             \/ epc = "ui" /\ epc' = "start"
             \/ /\ epc # "ui"
                /\ epc' # "failed"
                /\ ExecPositionNo(epc') = ExecPositionNo(epc) + 1
    /\ (epc \in { "done", "failed" }) => UNCHANGED evars
    /\ (epc' = "failed") => eresult'.kind = "error" /\ ~eresult'.success
    /\ (eresult'.kind = "error") => epc' = "failed"
    /\ (eresult'.kind = "result") => epc' = "done"
    /\ (eresult' # eresult) => eresult = Pending
    /\ (resultPdf' # resultPdf) =>
          epc \in { "pointSet", "beforeCopied", "signedInserted" }
    /\ (outputFile' # outputFile) => epc = "remainingCopied"

C15_StepsInOrder == [][ExecStepInOrder]_vars

\* C15 witness: a job that failed in the last copy of the splice, with pages
\* already spliced, no file written and an error returned.
C15_Witness ==
    /\ epc = "failed"
    /\ eresult = ErrorResult("copy remaining")
    /\ Len(resultPdf) >= 2
    /\ outputFile = NoFile

(***************************************************************************)
(* C16.  When the caller's insertion value N is negative or >= the         *)
(* original's page count, the job treats it as append-at-end (output is    *)
(* all original pages followed by all signed pages) and does not raise an  *)
(* error; a blank insertion field in the UI is sent as -1 and therefore    *)
(* appends.                                                                *)
(***************************************************************************)
\* The insertion value lies outside the original document.
OutOfRange == insertAfter < 0 \/ insertAfter >= Len(originalPdf)

\* The state part: a blank field is sent as -1; an out-of-range value puts
\* the insertion point at the end, and the spliced output is the original
\* followed by the signed pages.
ClampAppends ==
    /\ (insertField = << >> /\ epc # "ui") => (insertAfter = 0 - 1 /\ OutOfRange)
    /\ (OutOfRange /\ epc \in { "pointSet", "beforeCopied", "signedInserted",
                                "remainingCopied", "done" }) =>
          insertPoint = Len(originalPdf)
    /\ (OutOfRange /\ epc \in { "remainingCopied", "done" }) =>
          resultPdf = originalPdf \o signedPdf
    /\ (OutOfRange /\ epc = "done") =>
          /\ ExecSucceeded
          /\ outputFile = WholeFile(originalPdf \o signedPdf)

\* The step part: determining the insertion point never fails.
ClampNeverFails == (epc = "signedLoaded" /\ epc' # epc) => epc' = "pointSet"

C16_OutOfRangeAppends == []ClampAppends /\ [][ClampNeverFails]_vars

\* C16 witness: a job started from the page with the field left blank, done,
\* with the signed pages appended to an original of at least two pages.
C16_Witness ==
    /\ epc = "done"
    /\ insertField = << >>
    /\ insertAfter = 0 - 1
    /\ Len(originalPdf) >= 2
    /\ Len(signedPdf) >= 1
    /\ resultPdf = originalPdf \o signedPdf

(***************************************************************************)
(* C17.  Each job invocation ends with exactly one terminal outcome        *)
(* delivered to the caller, either a result or an error, never both and    *)
(* never neither, and no progress event of that job is forwarded after the *)
(* terminal outcome.                                                       *)
(* process-folder rejects its promise as soon as a message of type error   *)
(* arrives and keeps forwarding the progress messages that follow it, so   *)
(* the statement is violated.                                              *)
(***************************************************************************)
\* The invocation is over: the handler returned early, or the child closed.
InvocationOver == cpc \in { "returned", "closed", "errored" }

C17_OneOutcomeThenSilence ==
    /\ Cardinality({ k \in 1..Len(ipcLog) : ipcLog[k] = "settled" }) <= 1
    /\ (promise # "pending") <=> (\E k \in 1..Len(ipcLog) : ipcLog[k] = "settled")
    /\ InvocationOver => promise \in { "resolved", "rejected" }
    /\ \A k \in 1..Len(ipcLog) :
          ipcLog[k] = "settled" => \A m \in (k + 1)..Len(ipcLog) : ipcLog[m] # "progress"

(***************************************************************************)
(* C18.  No job invocation stays pending forever: for every sequence of    *)
(* messages received on the processor's stdout and every exit code, once   *)
(* the processor child process has closed, the process-folder and          *)
(* process-execution-version invocations are settled (resolved or          *)
(* rejected).                                                              *)
(* The close handler resolves when code is 0 and a result arrived, rejects *)
(* when no result arrived, and does nothing when a result arrived and the  *)
(* code is not 0, so the statement is violated.                            *)
(***************************************************************************)
C18_SettledOnceClosed ==
    (handlerName \in MainHandlers /\ cpc = "closed") =>
        promise \in { "resolved", "rejected" }

(***************************************************************************)
(* C19.  Every packet listed in a successful result and counted in         *)
(* packetsCreated, and every execution-version outputPath returned with    *)
(* success, refers to a file whose write completed; a signer whose packet  *)
(* assembly or write failed is not listed, and packetsCreated equals the   *)
(* length of the packets list.                                             *)
(***************************************************************************)
\* The packet file written for a listed packet.
ListedPacketWritten(listed) ==
    \E k \in 1..Len(packetFiles) :
        /\ packetFiles[k].signer = listed.name
        /\ Len(packetFiles[k].pages) = listed.pages
        /\ listed.pages > 0

C19_ListedFilesAreWritten ==
    /\ \A k \in 1..Len(packetsCreated) :
          /\ ListedPacketWritten(packetsCreated[k])
          /\ ~WarnedAbout(packetsCreated[k].name)
    /\ Succeeded =>
          /\ result.packets = packetsCreated
          /\ result.packetsCreated = Len(result.packets)
          /\ \A k \in 1..Len(result.packets) : ListedPacketWritten(result.packets[k])
    /\ ExecSucceeded =>
          /\ eresult.outputPath = outputPathOf(originalPath)
          /\ outputFile = WholeFile(resultPdf)
          /\ eresult.totalPages = Len(outputFile.pages)
    /\ (outputFile # NoFile /\ outputFile # WholeFile(resultPdf)) => ~ExecSucceeded

\* C19 witness: a successful packet job over three signers in which the
\* assembly of one signer's packet failed and the other two are listed.
C19_Witness ==
    /\ pc = "done"
    /\ Succeeded
    /\ Len(signerDocPages) = 3
    /\ result.packetsCreated = 2
    /\ \E s \in 1..Len(signerDocPages) :
          /\ WarnedAbout(signerDocPages[s].signer)
          /\ \A k \in 1..Len(result.packets) :
                result.packets[k].name # signerDocPages[s].signer

(***************************************************************************)
(* C20.  A successful packet job emits a master table with exactly one row *)
(* (Signer, Document, Page) per ObligationRef in the Page Index, sorted by *)
(* Signer, then Document, then Page, and for each Signer a table           *)
(* containing exactly that signer's rows.                                  *)
(***************************************************************************)
\* The rows of the Page Index: one per (signer, document, page).
IndexRows ==
    UNION { UNION { { << signerDocPages[s].signer, signerDocPages[s].docs[d].docName,
                         signerDocPages[s].docs[d].pages[q] >> :
                         q \in 1..Len(signerDocPages[s].docs[d].pages) } :
                    d \in 1..Len(signerDocPages[s].docs) } :
            s \in 1..Len(signerDocPages) }

\* The job emits tables: a folder for them beside the packets, a master table
\* holding the rows of the Page Index, and one table per signer.
C20_TablesEmitted ==
    Succeeded =>
        /\ "tables" \in dirsCreated
        /\ "masterTable" \in DOMAIN result
        /\ { result.masterTable[k] : k \in 1..Len(result.masterTable) } = IndexRows
        /\ "signerTables" \in DOMAIN result
        /\ Len(result.signerTables) = Len(signerDocPages)

(***************************************************************************)
(* C21.  isProbablePerson(name) returns false whenever name contains, as a *)
(* substring, any of LLC, INC, CORP, CORPORATION, LP, LLP, TRUST,          *)
(* HOLDINGS, PARTNERS, FUND, CAPITAL; otherwise it returns true exactly    *)
(* when the number of non-empty whitespace-separated tokens of name is     *)
(* between 2 and 4 inclusive.                                              *)
(***************************************************************************)
containsTerm(name) == \E term \in entityTerms : includes(name, term)

\* The number of maximal runs of characters outside the set seps.
tokenCount(name, seps) ==
    Cardinality({ i \in 1..Len(name) :
                    name[i] \notin seps /\ (i = 1 \/ name[i - 1] \in seps) })

Classified == job = "person" /\ fpc = "done"

C22_NoEmptySignerKey ==
    /\ normalizeName(<< >>) = << >>
    /\ job = "extract" => \A k \in 1..Len(xsigners) : xsigners[k] # << >>

(***************************************************************************)
(* C23.  A packet job with invalid input (no files supplied, a folder      *)
(* containing no PDF, or an input that is neither a folder path nor an     *)
(* object naming a folder or files) fails with an error before any         *)
(* progress event is emitted, any document is read, any processor is       *)
(* started or any output directory is created.                             *)
(***************************************************************************)
\* Input that supplies no files, or names neither a folder nor files.
InvalidInput == input \in { "{ files: [] }", "{ }" }

\* process-folder, once past its checks: rejected, the processor never
\* started, and no progress event sent.
C23_InvalidInputFailsFirst ==
    (handlerName = "process-folder" /\ InvalidInput /\ cpc # "called") =>
        /\ cpc = "returned"
        /\ promise = "rejected"
        /\ \A k \in 1..Len(ipcLog) : ipcLog[k] # "progress"

(***************************************************************************)
(* C24.  The execution-version output filename is the original's basename  *)
(* without its extension, with the draft-suffix tokens _Clean,             *)
(* _Without_Sigs, _Unsigned and _Draft stripped, followed by               *)
(* " (Execution Version)" and then the extension.                          *)
(***************************************************************************)
DraftTokens == Range(DraftSuffixes)

\* The name with every draft-suffix token at its end removed.
RECURSIVE stripDraftSuffixes(_)
stripDraftSuffixes(s) ==
    IF \E t \in DraftTokens : endsWith(s, t)
    THEN stripDraftSuffixes(stripEnd(s, CHOOSE t \in DraftTokens : endsWith(s, t)))
    ELSE s

\* The basename without its four-character extension, and the extension.
stemOf(base) == SubSeq(base, 1, Len(base) - 4)

extensionOf(base) == SubSeq(base, Len(base) - 3, Len(base))

Named == job = "outputName" /\ fpc = "done"

\* The extension is compared without regard to case.
C24_OutputFilename ==
    Named =>
        \E ext \in { extensionOf(fin), toLowerCase(extensionOf(fin)) } :
            fout = stripDraftSuffixes(stemOf(fin)) \o ExecutionVersionSuffix \o ext

(***************************************************************************)
(* C25.  Output generation is idempotent: running the packet job twice on  *)
(* the same unchanged input folder yields the same signer set and the same *)
(* packet files (same names, same page lists) as running it once, and the  *)
(* output directory written by the first run is never taken as input by    *)
(* the second.                                                             *)
(***************************************************************************)
\* Every signer with pages got a packet: no assembly or write failed.
AllBuilt(sdp, created) ==
    \A s \in 1..Len(sdp) :
        Len(packetPages(sdp[s].docs)) > 0 =>
            \E k \in 1..Len(created) : created[k].name = sdp[s].signer

SecondRunOver == job = "rerun" /\ run = 2 /\ pc = "done"

C26_InputsUntouched ==
    /\ packetFiles # << >> => "packets" \in dirsCreated
    /\ outputFile # NoFile =>
          outputPathOf(originalPath) \notin { originalPath, signedPath }

(***************************************************************************)
(* C27.  Packet output format follows the input format family: all-PDF     *)
(* inputs give PDF packets, all-DOCX inputs give DOCX packets, and mixed   *)
(* inputs are processed as two independent per-format sub-runs whose pages *)
(* are never merged into one output document; no supplied input document   *)
(* of either format is silently left out of the run.                       *)
(***************************************************************************)
isDocxName(f) == endsWith(toLowerCase(f), << ".", "d", "o", "c", "x" >>)

SuppliedNames == { Disk[filePaths[k]].base : k \in 1..Len(filePaths) }

\* A finished job scanned every supplied document or warned about it, and a
\* job whose inputs are all DOCX documents that can be read succeeds.
C27_FormatFamilyFollowed ==
    (job = "packets" /\ pc = "done") =>
        /\ Succeeded =>
              \A f \in SuppliedNames : f \in Range(files) \/ WarnedAbout(f)
        /\ (filePaths # << >>
              /\ \A k \in 1..Len(filePaths) :
                    /\ isDocxName(Disk[filePaths[k]].base)
                    /\ Disk[filePaths[k]].readable) =>
              result.kind = "result"

(***************************************************************************)
(* C28.  For a BY: anchor at line i of a text with L lines, both           *)
(* extraction tiers read only lines i+1 up to min(i+6, L-1); an anchor     *)
(* fewer than 6 lines from the end, including one on the last line, is     *)
(* processed without error and just sees a shorter window.                 *)
(***************************************************************************)
\* The anchor line and the lines of its window, with 1-based line numbers:
\* lines i to min(i + 6, L).
WindowOf(lines, i) ==
    SubSeq(lines, i, IF i + 6 <= Len(lines) THEN i + 6 ELSE Len(lines))

\* What was recorded for the anchor is what the two tiers give on its window
\* alone, and a name recorded comes from a line of the window.
AnchorSeesWindowOnly(entry) ==
    LET win == WindowOf(xlines, entry.line)
    IN  /\ entry.names = anchorSigners(win, 1)
        /\ entry.tier = anchorTier(win, 1)
        /\ entry.names # << >> =>
              \E j \in 2..Len(win) :
                 \/ entry.names[1] = normalizeName(win[j])
                 \/ /\ ":" \in Range(win[j])
                    /\ entry.names[1] = normalizeName(NameFieldOf(win[j]))
        /\ Len(win) = 1 => entry.names = << >>

\* Every anchor line the loop has passed was processed.
AnchorsProcessed ==
    \A i \in 1..Len(xlines) :
        (i < xi /\ isByAnchor(xlines[i])) =>
            \E k \in 1..Len(xlog) : xlog[k].line = i

C28_WindowOnly ==
    job = "extract" =>
        /\ \A k \in 1..Len(xlog) : AnchorSeesWindowOnly(xlog[k])
        /\ AnchorsProcessed
        /\ xpc = "done" => xi = Len(xlines) + 1 \/ xlines = << >>

\* C28 witness: a text scanned to its end with an anchor on its last line,
\* which gave nothing, and an anchor two lines above the end, which took a
\* name from its window of two lines.
C28_Witness ==
    /\ job = "extract"
    /\ xpc = "done"
    /\ \E k \in 1..Len(xlog) :
          xlog[k].line = Len(xlines) /\ xlog[k].names = << >>
    /\ \E k \in 1..Len(xlog) :
          xlog[k].line = Len(xlines) - 2 /\ xlog[k].names # << >>

(***************************************************************************)
(* C29.  A result or error message that the processor writes as one JSON   *)
(* line is recognised by the shell however the operating system splits the *)
(* processor's stdout into data chunks; a line split across two chunks is  *)
(* not lost, so the invocation's outcome does not depend on chunk          *)
(* boundaries.                                                             *)
(***************************************************************************)
WroteError == \E k \in 1..Len(emitted) : emitted[k].type = "error"

\* Once the processor has closed with code 0 after writing a result and no
\* error, the invocation is resolved with the last result written; and
\* process-folder and process-execution-version have rejected with the error
\* message as soon as the processor has written one.
C29_OutcomeWhateverTheChunks ==
    /\ (cpc = "closed" /\ exitCode = 0 /\ lastResult(emitted) # Null /\ ~WroteError) =>
          /\ promise = "resolved"
          /\ settledWith = lastResult(emitted)
    /\ (handlerName \in MainHandlers /\ WroteError) =>
          /\ promise = "rejected"
          /\ settledWith.type = "error"

(***************************************************************************)
(* C30.  If the processor emits an error message during a job, the         *)
(* invocation is rejected with that message whether the error arrives      *)
(* before or after a result message, and a later exit code of 0 never      *)
(* turns that invocation into a success.                                   *)
(***************************************************************************)
\* The first error message the processor wrote.
FirstError ==
    emitted[CHOOSE k \in 1..Len(emitted) :
               /\ emitted[k].type = "error"
               /\ \A m \in 1..(k - 1) : emitted[m].type # "error"]

\* From the moment the processor has written an error message,
\* process-folder and process-execution-version are rejected with it, and
\* stay so after the processor has closed, whatever the exit code.
C30_ErrorMessageRejects ==
    (handlerName \in MainHandlers /\ WroteError) =>
        /\ promise = "rejected"
        /\ settledWith = FirstError

(***************************************************************************)
(* C31.  A packet job that returns success reports at least one packet: a  *)
(* result with success true and packetsCreated equal to 0 never occurs,    *)
(* including when every signer's packet assembly fails or a document in    *)
(* which signers were found has zero pages.                                *)
(***************************************************************************)
C31_SuccessReportsAPacket ==
    Succeeded => result.packetsCreated >= 1

(***************************************************************************)
(* C32.  A failure while assembling or writing one signer's packet is      *)
(* reported as a warning event and does not prevent the packets of the     *)
(* remaining signers from being assembled, written and listed in the       *)
(* result: every signer whose turn in the packet loop has passed either    *)
(* has a warning and no packet, or (having a page) has its packet written  *)
(* and listed; the loop always reaches the last signer.                    *)
(***************************************************************************)
\* The signer is listed among the packets created so far.
ListedSigner(signer) ==
    \E k \in 1..Len(packetsCreated) : packetsCreated[k].name = signer

C32_FailureIsWarningOthersContinue ==
    /\ \A s \in 1..Len(signerDocPages) :
          LET entry == signerDocPages[s]
          IN  (pc \in { "extracting", "done" } /\ s < packetIdx) =>
                 IF WarnedAbout(entry.signer)
                 THEN /\ PacketsOf(entry.signer) = { }
                      /\ ~ListedSigner(entry.signer)
                 ELSE RecordedRefs(entry) # { } =>
                         /\ PacketsOf(entry.signer) # { }
                         /\ ListedSigner(entry.signer)
    /\ (pc = "done" /\ result.kind = "result") =>
          /\ packetIdx = Len(signerDocPages) + 1
          /\ result.packets = packetsCreated

\* C32 witness: a finished job in which the first signer's packet failed
\* with a warning and a later signer's packet is written and listed in the
\* result.
C32_Witness ==
    /\ pc = "done"
    /\ Succeeded
    /\ Len(signerDocPages) >= 2
    /\ WarnedAbout(signerDocPages[1].signer)
    /\ PacketsOf(signerDocPages[1].signer) = { }
    /\ \E s \in 2..Len(signerDocPages) :
          /\ PacketsOf(signerDocPages[s].signer) # { }
          /\ \E k \in 1..Len(result.packets) :
                result.packets[k].name = signerDocPages[s].signer

(***************************************************************************)
(* C33.  Page Index invariant after scanning any sequence of documents:    *)
(* for every signer and document, the recorded page list has no            *)
(* duplicates, is in strictly ascending order, and contains only page      *)
(* numbers between 1 and that document's page count.                       *)
(***************************************************************************)
\* A page list in strictly ascending order (hence without duplicates).
StrictlyAscending(pages) ==
    \A i \in 1..Len(pages) : \A j \in 1..Len(pages) : i < j => pages[i] < pages[j]

C33_PageIndexWellFormed ==
    \A s \in 1..Len(signerDocPages) :
        \A d \in 1..Len(signerDocPages[s].docs) :
            LET doc == signerDocPages[s].docs[d]
            IN  /\ StrictlyAscending(doc.pages)
                /\ Cardinality(Range(doc.pages)) = Len(doc.pages)
                /\ doc.docName \in ScannedNames
                /\ \A k \in 1..Len(doc.pages) :
                      doc.pages[k] \in 1..Disk[tempDir[doc.docName]].pageCount

\* C33 witness: the scan of three documents is over and the Page Index holds
\* a signer with two documents, one of them recorded with several pages.
C33_Witness ==
    /\ pc = "check"
    /\ Len(files) = 3
    /\ \E s \in 1..Len(signerDocPages) :
          /\ Len(signerDocPages[s].docs) = 2
          /\ \E d \in 1..2 : Len(signerDocPages[s].docs[d].pages) >= 2

(***************************************************************************)
(* C34.  Every file path supplied to a packet job is scanned as its own    *)
(* document: two input files that have the same basename but lie in        *)
(* different folders are both processed, and neither silently replaces the *)
(* other.                                                                  *)
(* The handler copies each path to tempDir under its basename, so the      *)
(* later of two files of one basename overwrites the earlier one and only  *)
(* it is scanned: the statement is violated.                               *)
(***************************************************************************)
C34_EveryPathIsItsOwnDocument ==
    (pc \in { "scanning", "check", "extracting", "done" } /\ result.kind # "error"
        /\ \A k \in 1..Len(filePaths) : Disk[filePaths[k]].readable) =>
       \A k \in 1..Len(filePaths) :
          LET id == filePaths[k]
          IN  /\ Disk[id].base \in DOMAIN tempDir
              /\ tempDir[Disk[id].base] = id
              /\ isPdfName(Disk[id].base) =>
                    \E j \in 1..Len(files) : tempDir[files[j]] = id

(***************************************************************************)
(* C35.  Two packet jobs that overlap in time, including two started       *)
(* within the same millisecond, use distinct working directories and       *)
(* distinct ZIP output paths, so neither job scans, packages or overwrites *)
(* files belonging to the other.                                           *)
(* Both paths are named by Date.now() alone: two jobs that read the same   *)
(* millisecond share the folder or the ZIP file, so the statement is       *)
(* violated.                                                               *)
(***************************************************************************)
C35_OverlappingJobsAreSeparate ==
    \A g \in Invocations : \A h \in Invocations :
        g # h =>
           /\ (tempDirOf[g] # NoStamp /\ tempDirOf[h] # NoStamp)
                 => tempDirOf[g] # tempDirOf[h]
           /\ (zipPathOf[g] # NoStamp /\ zipPathOf[h] # NoStamp)
                 => zipPathOf[g] # zipPathOf[h]
           /\ filesOf[h] \subseteq { h }
           /\ hpc[h] = "done" =>
                 /\ zipFiles[zipPathOf[h]].by = h
                 /\ zipFiles[zipPathOf[h]].packets = { h }

(***************************************************************************)
(* C36.  Draft-suffix stripping reaches a fixed point: the name that       *)
(* precedes " (Execution Version)" in the output filename ends in none of  *)
(* _Clean, _Without_Sigs, _Unsigned, _Draft, so stripping it again changes *)
(* nothing, whatever order several such tokens are stacked in at the end   *)
(* of the original basename.                                               *)
(* Each token is removed by one replace call, once, in a fixed order: a    *)
(* token uncovered by a later call stays, so the statement is violated.    *)
(***************************************************************************)
\* The part of the output filename ahead of " (Execution Version).pdf".
precedingName(filename) ==
    SubSeq(filename, 1, Len(filename) - Len(ExecutionVersionSuffix) - Len(DotPdf))

C36_StrippingIsFixedPoint ==
    Named =>
        /\ \A t \in DraftTokens : ~endsWith(precedingName(fout), t)
        /\ nameWithoutExt(precedingName(fout)) = precedingName(fout)

(***************************************************************************)
(* C37.  Within one job, every progress event carries a percent between 0  *)
(* and 100 inclusive and the percents never decrease from one event to the *)
(* next.                                                                   *)
(***************************************************************************)
\* The events of one job, in the order sent: percents in 0..100, none lower
\* than the one before.
PercentsInRangeAndRising(evs) ==
    /\ \A k \in 1..Len(evs) : evs[k].percent \in 0..100
    /\ \A k \in 1..(Len(evs) - 1) : evs[k].percent <= evs[k + 1].percent

C37_ProgressInRangeAndMonotone ==
    /\ PercentsInRangeAndRising(events)
    /\ PercentsInRangeAndRising(progressSent)

\* C37 witness: a packet job over three files has ended after a warning and
\* packets for two signers; its events rise from 0 to 100 through a percent
\* computed by rounding.
C37_Witness ==
    /\ pc = "done"
    /\ Len(files) = 3
    /\ Len(signerDocPages) = 2
    /\ \E k \in 1..Len(events) : events[k].stage = "warning"
    /\ \E k \in 1..Len(events) : events[k].percent \in { 17, 33 }
    /\ \E k \in 1..Len(events) : events[k].percent = 75
    /\ events[1].percent = 0
    /\ events[Len(events)].percent = 100

\* An execution-version job has sent all eight of its events.
C37_ExecutionEventsReached ==
    /\ epc = "done"
    /\ [k \in 1..Len(progressSent) |-> progressSent[k].percent]
          = << 10, 30, 50, 60, 75, 90, 95, 100 >>

(***************************************************************************)
(* C38.  complete-2fa-login returns a logged-in user only if an earlier    *)
(* login-user call verified that same user's password and issued the code  *)
(* being presented; no other sequence of IPC calls, such as                *)
(* request-verification-code with type login followed by                   *)
(* complete-2fa-login, yields a successful login.                          *)
(* request-verification-code stores a code of the type it is handed for    *)
(* the user it is handed, without any password, and complete-2fa-login     *)
(* accepts it: the statement is violated.                                  *)
(***************************************************************************)
C38_LoginOnlyAfterPassword ==
    \A k \in 1..Len(sessions) :
        /\ insertedBy[sessions[k].codeId] = "login-user"
        /\ verification_codes[sessions[k].codeId].user_id = sessions[k].user

(***************************************************************************)
(* C39.  A login verification code is single-use and time-limited:         *)
(* complete-2fa-login succeeds at most once for a given code, never for a  *)
(* code whose expiry time has passed, and issuing a new login code for a   *)
(* user makes every earlier unused login code of that user unusable.       *)
(***************************************************************************)
\* Rows i and j are login codes of one user.
LoginCodesOfOneUser(i, j) ==
    /\ verification_codes[i].type = "login"
    /\ verification_codes[j].type = "login"
    /\ verification_codes[i].user_id = verification_codes[j].user_id
    /\ verification_codes[i].user_id \in DOMAIN users

C39_CodesSingleUseAndTimeLimited ==
    /\ \A k \in 1..Len(sessions) : \A l \in 1..Len(sessions) :
          k # l => sessions[k].codeId # sessions[l].codeId
    /\ \A k \in 1..Len(sessions) :
          LET s == sessions[k]
              row == verification_codes[s.codeId]
          IN  /\ row.type = "login"
              /\ row.user_id = s.user
              /\ row.used = 1
              /\ s.at <= row.expires_at
              /\ \A j \in (s.codeId + 1)..s.rows : ~LoginCodesOfOneUser(s.codeId, j)
    /\ \A i \in 1..Len(verification_codes) : \A j \in 1..Len(verification_codes) :
          (i < j /\ LoginCodesOfOneUser(i, j)) => verification_codes[i].used = 1

\* C39 witness: a user was issued two login codes of the same digits, logged
\* in with the second at the instant it expires, and presented it again,
\* which was refused; the first code was never accepted.
C39_Witness ==
    /\ Len(verification_codes) = 2
    /\ LoginCodesOfOneUser(1, 2)
    /\ verification_codes[1].code = verification_codes[2].code
    /\ Len(sessions) = 1
    /\ sessions[1].codeId = 2
    /\ sessions[1].at = verification_codes[2].expires_at
    /\ reply = Reply("complete-2fa-login", FALSE, "Invalid verification code")

\* A code presented after its expiry time has been refused as expired.
C39_ExpiredRefused ==
    /\ reply = Reply("complete-2fa-login", FALSE, "Verification code has expired")
    /\ \E k \in 1..Len(verification_codes) :
          /\ verification_codes[k].used = 0
          /\ verification_codes[k].expires_at < dateNow

=============================================================================
